---- MODULE Spec2Model ----
(***************************************************************************)
(* Momentum backtest: the portfolio simulator (scripts/build_portfolio.py, *)
(* build_portfolio_returns and the inputs load_inputs hands it) and the    *)
(* cumulative-index routines (src/momentum/metrics.py,                     *)
(* scripts/build_portfolio.py, scripts/relative_performance.py), the       *)
(* alignment utility and the performance metrics of                        *)
(* src/momentum/metrics.py, and the momentum and return builders           *)
(* (scripts/build_momentum.py, build_momentum_multi.py, build_features.py).*)
(*                                                                         *)
(* Dates are month numbers, asset ids (NR) are small integers, returns are *)
(* integers (a unit is one whole return, so 1 + r is an integer factor)    *)
(* and a mean is kept exactly as the pair sum / cnt.                       *)
(***************************************************************************)
EXTENDS Integers, Sequences, FiniteSets, TLC

\* ---------------------------------------------------------------- bounds
MaxDate == 3
MaxAsset == 2
MaxRet == 2
MaxLen == 3
MaxStart == 2

\* ------------------------------------------------------- program constants
\* argparse choices of --lookback
Lookbacks == {1, 3, 6, 12}
\* the missing value (NaN / NaT); never a score, a return or a price
NaN == -1000

Dates == 1..MaxDate
Assets == 1..MaxAsset
\* momentum scores: MaxAsset levels give every weak order of MaxAsset assets
Scores == 1..MaxAsset
\* portfolio sizes, scaled to the asset universe (PORT_SIZES)
TopNs == 1..MaxAsset
\* one-period returns held by the returns panel
RetVals == 1..MaxRet

VARIABLES
    eligible,        \* eligible_ids: market cap > 10e9 and a price column
    universe,        \* mom["NR"].unique()
    lookback,        \* build_portfolio_returns parameter
    top_n,           \* build_portfolio_returns parameter
    dates,           \* sorted(mom["date"].dropna().unique())
    retsIndex,       \* rets_wide.index
    retsCols,        \* rets_wide.columns
    pc,              \* position in build_portfolio_returns
    t,               \* loop variable (1-based)
    formation_date,
    holding_date,
    cross,           \* mom rows at formation_date with a defined score
    tickers,         \* NR of the selected rows
    rets_row,        \* rets_wide.loc[holding_date] (all columns)
    r,               \* rets_wide.loc[holding_date, cols]
    port_rets,       \* list of (holding_date, mean)
    result,          \* the returned Series
    returns,         \* cum_index: the input series
    start,           \* cum_index: start
    cum,             \* cum_index: the returned series
    cumBy            \* which cum_index routine produced cum

\* align_common_start
VARIABLES
    series_dict,     \* the named return series
    bench,           \* the benchmark series
    aligned,         \* returned: the trimmed series
    bench_aligned,   \* returned: the trimmed benchmark
    common_start     \* returned

alignVars == <<series_dict, bench, aligned, bench_aligned, common_start>>

\* no call of align_common_start is in progress
AlignIdle ==
    /\ series_dict = <<>>
    /\ bench = <<>>
    /\ aligned = <<>>
    /\ bench_aligned = <<>>
    /\ common_start = NaN

\* cagr, ann_vol, sharpe, sortino
VARIABLES
    series,          \* the argument r of the metric
    metric           \* the function called and the value it returned

metVars == <<series, metric>>

\* no metric was computed
MetIdle ==
    /\ series = <<>>
    /\ metric = [fn |-> "none", val |-> <<>>]

\* hac_t_pvalue
VARIABLES
    active,          \* the argument: the active returns
    hac_out          \* lags used and the p-value returned

hacVars == <<active, hac_out>>

\* hac_t_pvalue was not called
HacIdle ==
    /\ active = <<>>
    /\ hac_out = [called |-> FALSE, lags |-> NaN, p_val |-> NaN]

\* metrics_table
VARIABLES
    named_series,    \* the dict, as (name, series) pairs in insertion order
    bench_name,
    table_rows       \* rows: the rows of the table built so far

tableVars == <<named_series, bench_name, table_rows>>

\* metrics_table was not called
TableIdle ==
    /\ named_series = <<>>
    /\ bench_name = "Benchmark"
    /\ table_rows = <<>>

\* the builders of the processed files
VARIABLES
    px,              \* one stock column of Monthly_Data.csv, rows by date
    px_alt,          \* the same column with one entry changed
    mom_L,           \* compute_momentum: lookback
    mom_long,        \* the long momentum table of px
    mom_alt,         \* the long momentum table of px_alt
    mom_files,       \* data/processed: momentum file -> table
    rets_long,       \* stock_returns_long.csv
    rets_col         \* the column of rets_wide load_inputs builds from it

prepVars == <<px, px_alt, mom_L, mom_long, mom_alt, mom_files, rets_long,
              rets_col>>

\* no builder has run
PrepIdle ==
    /\ px = <<>>
    /\ px_alt = <<>>
    /\ mom_L = 1
    /\ mom_long = <<>>
    /\ mom_alt = <<>>
    /\ mom_files = <<>>
    /\ rets_long = <<>>
    /\ rets_col = <<>>

\* the parsing of raw cells (_to_float_series, pd.to_numeric)
VARIABLES
    cells,           \* a column of raw strings, each a sequence of characters
    parse_out        \* the function called and what it returned

parseVars == <<cells, parse_out>>

\* nothing was parsed
ParseIdle ==
    /\ cells = <<>>
    /\ parse_out = [fn |-> "none", val |-> <<>>]

\* the universe filter of build_features.py and build_momentum.py
VARIABLES
    basic,           \* Basic_Data.csv: rows (NR, market-cap string)
    all_stock_cols,  \* list(monthly.columns[2:])
    stock_cols,      \* the columns kept
    written          \* data/processed: file -> the stock columns saved in it

univVars == <<basic, all_stock_cols, stock_cols, written>>

\* no builder has filtered the universe
UnivIdle ==
    /\ basic = <<>>
    /\ all_stock_cols = <<>>
    /\ stock_cols = <<>>
    /\ written = <<>>

\* the scripts as processes over data/processed and results
VARIABLES
    processed,       \* data/processed: portfolio file -> the series stored
    results,         \* results: summary file -> the table stored
    built,           \* the lookbacks build_portfolio.py has completed
    procs,           \* running build_portfolio.py processes
    lookup,          \* the last summary lookup of a reader and its outcome
    run_all          \* position of run_all.main

fsVars == <<processed, results, built, procs, lookup, run_all>>

\* no script has run
FsIdle ==
    /\ processed = <<>>
    /\ results = <<>>
    /\ built = {}
    /\ procs = <<>>
    /\ lookup = <<>>
    /\ run_all = <<>>

\* the objects a core operation works on
VARIABLES
    heap,            \* object id -> value
    frame_in,        \* the object ids the caller passed, in argument order
    frame_before,    \* the heap when the call was made
    frame_op,        \* the operation called
    frame_out        \* the object ids the operation returned

frameVars == <<heap, frame_in, frame_before, frame_op, frame_out>>

\* no operation was called on the heap
FrameIdle ==
    /\ heap = <<>>
    /\ frame_in = <<>>
    /\ frame_before = <<>>
    /\ frame_op = "none"
    /\ frame_out = <<>>

\* one formation date of build_portfolio_returns under two returns panels
VARIABLES
    mom_t,           \* mom[mom["date"] == formation_date]
    sel_n,           \* top_n
    rets_a,          \* rets_wide.loc[holding_date] of the first panel
    rets_b,          \* rets_wide.loc[holding_date] of the second panel
    sel_a,           \* tickers, cols and r of the run on the first panel
    sel_b            \* tickers, cols and r of the run on the second panel

selVars == <<mom_t, sel_n, rets_a, rets_b, sel_a, sel_b>>

\* no formation date was processed
SelIdle ==
    /\ mom_t = <<>>
    /\ sel_n = 1
    /\ rets_a = <<>>
    /\ rets_b = <<>>
    /\ sel_a = <<>>
    /\ sel_b = <<>>

\* the downside deviation of sortino in floating point
VARIABLES
    neg_obs,         \* r[r < 0]: the negative returns, as floats
    dev_out          \* what sortino returned

devVars == <<neg_obs, dev_out>>

\* sortino was not called on floats
DevIdle ==
    /\ neg_obs = <<>>
    /\ dev_out = "none"

\* the state of the scripts around the core routines
opsVars == <<parseVars, univVars, fsVars, frameVars, selVars, devVars>>

OpsIdle ==
    /\ ParseIdle /\ UnivIdle /\ FsIdle /\ FrameIdle /\ SelIdle /\ DevIdle

\* the state of the library routines other than cum_index
libVars == <<alignVars, metVars, hacVars, tableVars, prepVars, opsVars>>

LibIdle ==
    /\ AlignIdle /\ MetIdle /\ HacIdle /\ TableIdle /\ PrepIdle
    /\ OpsIdle

vars == <<eligible, universe, lookback, top_n, dates, retsIndex,
          retsCols, pc, t, formation_date, holding_date, cross, tickers,
          rets_row, r, port_rets, result, returns, start, cum, cumBy,
          libVars>>

simVars == <<eligible, universe, lookback, top_n, dates, retsIndex,
             retsCols, pc, t, formation_date, holding_date, cross, tickers,
             rets_row, r, port_rets, result>>

cumVars == <<returns, start, cum, cumBy>>

\* the simulator's variables other than pc
simData == <<eligible, universe, lookback, top_n, dates, retsIndex,
             retsCols, t, formation_date, holding_date, cross, tickers,
             rets_row, r, port_rets, result>>

\* ---------------------------------------------------------------- helpers
Range(s) == {s[i] : i \in DOMAIN s}

Min(a, b) == IF a <= b THEN a ELSE b

\* sequences of length n over S without repetition
InjSeqs(S, n) == {s \in [1..n -> S] : \A i, j \in 1..n : i # j => s[i] # s[j]}

\* sorted(...) of a set of dates
SortedSeq(S) ==
    CHOOSE s \in InjSeqs(S, Cardinality(S)) :
        \A i, j \in 1..Cardinality(S) : i < j => s[i] < s[j]

RECURSIVE SumSeq(_)
SumSeq(s) == IF s = <<>> THEN 0 ELSE s[1] + SumSeq(Tail(s))

\* ------------------------------------------------- build_portfolio_returns
\* rows of the momentum table at one date: distinct NR (the table is a melt
\* of a wide panel), scores from V, in the table's row order
RowSeqs(U, V) ==
    UNION {{s \in [1..n -> [NR : U, mom : V]] :
               \A i, j \in 1..n : i # j => s[i].NR # s[j].NR} :
           n \in 1..Cardinality(U)}

\* what mom[mom["date"] == formation_date] can be
MomRowsAt == RowSeqs(universe, Scores \cup {NaN})

\* .dropna(subset=[mom_col])
DropNa(rows) == SelectSeq(rows, LAMBDA x : x.mom # NaN)

\* the orders an ascending sort of the score may leave
SortValuesAsc(c) ==
    {p \in InjSeqs(Range(c), Len(c)) :
        \A i, j \in 1..Len(c) : i < j => p[i].mom <= p[j].mom}

\* cross.sort_values(mom_col, ascending=False): kind is the default
\* "quicksort", which is not stable, so rows of equal score may come out in
\* any order
SortValues(c) ==
    {p \in InjSeqs(Range(c), Len(c)) :
        \A i, j \in 1..Len(c) : i < j => p[i].mom >= p[j].mom}

HeadAvailable(s, n) ==
    LET avail == SelectSeq(s, LAMBDA x : /\ rets_a.in_index
                                          /\ x.NR \in DOMAIN rets_a.row
                                          /\ rets_a.row[x.NR] # NaN)
    IN  SubSeq(avail, 1, Min(n, Len(avail)))

\* .head(n)
HeadN(s, n) == SubSeq(s, 1, Min(n, Len(s)))

\* top["NR"].astype(str).tolist()
Tickers(top) == [i \in 1..Len(top) |-> top[i].NR]

\* [c for c in tickers if c in rets_wide.columns]
Cols(tk, columns) == SelectSeq(tk, LAMBDA c : c \in columns)

\* rets_wide.loc[holding_date, cols]
Loc(row, cols) == [i \in 1..Len(cols) |-> row[cols[i]]]

AllMissingNever(rr) == FALSE

\* r.dropna().empty
AllMissing(rr) == \A i \in DOMAIN rr : rr[i] = NaN

\* r.mean(skipna=True), kept exactly as sum / cnt (0 / 0 is NaN)
Mean(rr) ==
    LET kept == SelectSeq(rr, LAMBDA x : x # NaN)
    IN  [sum |-> SumSeq(kept), cnt |-> Len(kept)]

HoldingIndexSame(i) == i

\* holding_date = dates[t + 1]
HoldingIndex(i) == i + 1

LoopRangeAll(d) == 1..Len(d)

\* range(len(dates) - 1), 1-based
LoopRange(d) == 1..(Len(d) - 1)

\* a Series without a name
NoName == <<>>

\* f"top{top_n}_{lookback}m_ret"
SeriesName(n, L) == <<n, L>>

\* pd.Series(dtype=float)
EmptySeries == [index |-> <<>>, values |-> <<>>, name |-> NoName]

NoRow == <<>>

\* the file load_inputs reads the momentum table from
MomFile(L) == IF L # 6 THEN <<"momentum_long", L>> ELSE <<"momentum_long">>

\* build_momentum.py: stock_cols = the columns in eligible_ids
EligibleStockCols(elig) == {c \in Assets : c \in elig}

\* build_momentum_multi.compute_momentum: stock_cols = list(df.columns[2:])
AllStockCols == Assets

\* the assets of the momentum table in each file: momentum_long.csv is
\* written by build_momentum.py, momentum_long_{L}m.csv by
\* build_momentum_multi.py
FileUniverse(file, elig) ==
    IF file = <<"momentum_long">> THEN EligibleStockCols(elig) ELSE AllStockCols

\* keep_cols: the columns of stock_returns_long.csv (eligible assets) that
\* are in the momentum universe
KeepCols(elig, univ) == {c \in elig : c \in univ}

\* a direct call build_portfolio_returns(mom, rets_wide, top_n, lookback)
SimInit ==
    /\ eligible = Assets
    /\ universe = Assets
    /\ lookback \in Lookbacks
    /\ top_n \in TopNs
    /\ \E D \in SUBSET Dates : dates = SortedSeq(D)
    /\ retsIndex \in SUBSET Dates
    /\ retsCols \in SUBSET Assets
    /\ pc = "for"
    /\ t = 1
    /\ formation_date = NaN
    /\ holding_date = NaN
    /\ cross = <<>>
    /\ tickers = <<>>
    /\ rets_row = NoRow
    /\ r = <<>>
    /\ port_rets = <<>>
    /\ result = EmptySeries
    /\ returns = <<>>
    /\ start = 1
    /\ cum = <<>>
    /\ cumBy = "none"
    /\ LibIdle

\* for t in range(len(dates) - 1): formation_date, holding_date
\* (the locals of the body are dead here and are cleared)
ForNext ==
    /\ pc = "for"
    /\ IF t \in LoopRange(dates)
       THEN IF HoldingIndex(t) \in DOMAIN dates
            THEN /\ formation_date' = dates[t]
                 /\ holding_date' = dates[HoldingIndex(t)]
                 /\ pc' = "body"
            ELSE \* dates[t + 1]: IndexError
                 /\ pc' = "error"
                 /\ UNCHANGED <<formation_date, holding_date>>
       ELSE /\ pc' = "return"
            /\ UNCHANGED <<formation_date, holding_date>>
    /\ IF t \in LoopRange(dates) /\ HoldingIndex(t) \in DOMAIN dates
       THEN /\ cross' = <<>>
            /\ tickers' = <<>>
            /\ rets_row' = NoRow
            /\ r' = <<>>
       ELSE UNCHANGED <<cross, tickers, rets_row, r>>
    /\ UNCHANGED <<eligible, universe, lookback, top_n, dates,
                   retsIndex, retsCols, t, port_rets, result>>
    /\ UNCHANGED <<cumVars, libVars>>

Continue ==
    /\ pc' = "for"
    /\ t' = t + 1
    /\ UNCHANGED <<eligible, universe, lookback, top_n, dates,
                   retsIndex, retsCols, formation_date, holding_date, result>>
    /\ UNCHANGED <<cumVars, libVars>>

\* if cross.empty: continue
SkipEmptyCross ==
    /\ pc = "body"
    /\ \E rows \in MomRowsAt :
          /\ DropNa(rows) = <<>>
          /\ cross' = DropNa(rows)
    /\ UNCHANGED <<tickers, rets_row, r, port_rets>>
    /\ Continue

\* if holding_date not in rets_wide.index: continue
SkipNoHoldingDate ==
    /\ pc = "body"
    /\ holding_date \notin retsIndex
    /\ \E rows \in MomRowsAt :
          /\ DropNa(rows) # <<>>
          /\ cross' = DropNa(rows)
          /\ \E sorted \in SortValues(DropNa(rows)) :
                tickers' = Tickers(HeadN(sorted, top_n))
    /\ UNCHANGED <<rets_row, r, port_rets>>
    /\ Continue

\* if not cols: continue
SkipNoCols ==
    /\ pc = "body"
    /\ holding_date \in retsIndex
    /\ \E rows \in MomRowsAt :
          /\ DropNa(rows) # <<>>
          /\ cross' = DropNa(rows)
          /\ \E sorted \in SortValues(DropNa(rows)) :
                tickers' = Tickers(HeadN(sorted, top_n))
    /\ Cols(tickers', retsCols) = <<>>
    /\ rets_row' \in [retsCols -> RetVals \cup {NaN}]
    /\ UNCHANGED <<r, port_rets>>
    /\ Continue

\* if r.dropna().empty: continue
SkipAllMissing ==
    /\ pc = "body"
    /\ holding_date \in retsIndex
    /\ \E rows \in MomRowsAt :
          /\ DropNa(rows) # <<>>
          /\ cross' = DropNa(rows)
          /\ \E sorted \in SortValues(DropNa(rows)) :
                tickers' = Tickers(HeadN(sorted, top_n))
    /\ Cols(tickers', retsCols) # <<>>
    /\ rets_row' \in [retsCols -> RetVals \cup {NaN}]
    /\ r' = Loc(rets_row', Cols(tickers', retsCols))
    /\ AllMissing(r')
    /\ UNCHANGED port_rets
    /\ Continue

\* port_rets.append((holding_date, float(r.mean(skipna=True))))
Emit ==
    /\ pc = "body"
    /\ holding_date \in retsIndex
    /\ \E rows \in MomRowsAt :
          /\ DropNa(rows) # <<>>
          /\ cross' = DropNa(rows)
          /\ \E sorted \in SortValues(DropNa(rows)) :
                tickers' = Tickers(HeadN(sorted, top_n))
    /\ Cols(tickers', retsCols) # <<>>
    /\ rets_row' \in [retsCols -> RetVals \cup {NaN}]
    /\ r' = Loc(rets_row', Cols(tickers', retsCols))
    /\ ~AllMissing(r')
    /\ port_rets' = Append(port_rets, [date |-> holding_date, val |-> Mean(r')])
    /\ Continue

\* if not port_rets: return pd.Series(dtype=float)
\* return pd.Series(values, index=index, name=...)
Return ==
    /\ pc = "return"
    /\ result' =
         IF port_rets = <<>> THEN EmptySeries
         ELSE [index |-> [i \in 1..Len(port_rets) |-> port_rets[i].date],
               values |-> [i \in 1..Len(port_rets) |-> port_rets[i].val],
               name |-> SeriesName(top_n, lookback)]
    /\ pc' = "done"
    /\ UNCHANGED <<eligible, universe, lookback, top_n, dates,
                   retsIndex, retsCols, t, formation_date, holding_date,
                   cross, tickers, rets_row, r, port_rets>>
    /\ UNCHANGED <<cumVars, libVars>>

SimNext ==
    \/ ForNext
    \/ SkipEmptyCross
    \/ SkipNoHoldingDate
    \/ SkipNoCols
    \/ SkipAllMissing
    \/ Emit
    \/ Return

Init == SimInit

Next == SimNext

Spec == Init /\ [][Next]_vars

\* main of build_portfolio.py: parse_args, load_inputs(lookback) and one
\* call build_portfolio_returns(mom, rets_wide, n, lookback) of the loop
\* over PORT_SIZES
LoadInputs ==
    /\ pc = "main"
    /\ lookback' \in Lookbacks
    /\ top_n' \in TopNs
    /\ universe' = FileUniverse(MomFile(lookback'), eligible)
    /\ retsCols' = KeepCols(eligible, universe')
    /\ \E D \in SUBSET Dates : dates' = SortedSeq(D)
    /\ retsIndex' \in SUBSET Dates
    /\ pc' = "for"
    /\ t' = 1
    /\ UNCHANGED <<eligible, formation_date, holding_date, cross,
                   tickers, rets_row, r, port_rets, result>>
    /\ UNCHANGED <<cumVars, libVars>>

\* the processed files exist: build_features.py, build_momentum.py and
\* build_momentum_multi.py have run on a panel with a non-empty eligible set
PipeInit ==
    /\ eligible \in (SUBSET Assets) \ {{}}
    /\ universe = {}
    /\ lookback = 6
    /\ top_n = 1
    /\ dates = <<>>
    /\ retsIndex = {}
    /\ retsCols = {}
    /\ pc = "main"
    /\ t = 1
    /\ formation_date = NaN
    /\ holding_date = NaN
    /\ cross = <<>>
    /\ tickers = <<>>
    /\ rets_row = NoRow
    /\ r = <<>>
    /\ port_rets = <<>>
    /\ result = EmptySeries
    /\ returns = <<>>
    /\ start = 1
    /\ cum = <<>>
    /\ cumBy = "none"
    /\ LibIdle

PipeNext ==
    \/ LoadInputs
    \/ ForNext
    \/ SkipEmptyCross
    \/ SkipNoHoldingDate
    \/ SkipNoCols
    \/ SkipAllMissing
    \/ Emit
    \/ Return

PipeSpec == PipeInit /\ [][PipeNext]_vars

\* ------------------------------------------------ claims on the simulator
\* the body of an iteration has run and its locals are those of that iteration
AfterBody == pc \in {"for", "return", "done"} /\ t > 1

EntryAt(d) == \E i \in DOMAIN port_rets : port_rets[i].date = d

\* the iteration that just ran appended an entry
Emitted == AfterBody /\ EntryAt(holding_date)

InCross(a) == \E i \in DOMAIN cross : cross[i].NR = a

ScoreOf(a) == (CHOOSE x \in Range(cross) : x.NR = a).mom

\* asset a has a non-missing return in the panel row at holding_date
HasRet(a) == a \in retsCols /\ rets_row[a] # NaN

RECURSIVE SumRets(_)
SumRets(S) ==
    IF S = {} THEN 0
    ELSE LET a == CHOOSE x \in S : TRUE IN rets_row[a] + SumRets(S \ {a})

\* tk lists k distinct assets of rows c in non-increasing score order, and
\* no row left out has a higher score than a listed one
IsTopK(tk, c, k) ==
    /\ Len(tk) = k
    /\ \A i, j \in DOMAIN tk : i # j => tk[i] # tk[j]
    /\ \A i \in DOMAIN tk : \E x \in Range(c) : x.NR = tk[i]
    /\ \A i, j \in DOMAIN tk : i < j => ScoreOf(tk[i]) >= ScoreOf(tk[j])
    /\ \A x \in Range(c) :
          x.NR \notin Range(tk) => \A i \in DOMAIN tk : ScoreOf(tk[i]) >= x.mom

\* the mean of the non-missing returns at holding_date of the assets S
MeanOfAvailable(S) ==
    LET avail == {a \in S : HasRet(a)}
    IN  [sum |-> SumRets(avail), cnt |-> Cardinality(avail)]

\* C1: every emitted value is the equal-weight mean of the non-missing
\* returns at the holding date of the first min(top_n, rows with a defined
\* score) assets in descending-score order; a smaller cross-section gives a
\* smaller basket and no error; with top_n = 1 and a strictly highest-scoring
\* asset the value is that asset's return.
C1_EqualWeightMeanOfTopN ==
    /\ pc # "error"
    /\ Emitted =>
         /\ IsTopK(tickers, cross, Min(top_n, Len(cross)))
         /\ \A i \in DOMAIN port_rets :
               port_rets[i].date = holding_date =>
                  port_rets[i].val = MeanOfAvailable(Range(tickers))
         /\ top_n = 1 =>
               \A a \in Assets :
                  (InCross(a) /\ \A x \in Range(cross) :
                                    x.NR # a => x.mom < ScoreOf(a))
                  => \A i \in DOMAIN port_rets :
                        port_rets[i].date = holding_date =>
                           port_rets[i].val = [sum |-> rets_row[a], cnt |-> 1]

\* an entry was emitted from a cross-section smaller than top_n
C1_Witness ==
    /\ Emitted
    /\ Len(cross) < top_n

\* C2: an iteration emits an entry at the holding date exactly when a row at
\* the formation date has a defined score, the holding date is a row of the
\* returns panel and a selected asset has a non-missing return there; a
\* skipped period leaves no entry, and no entry is NaN-valued.
C2_EmitsIffDataAvailable ==
    /\ AfterBody =>
         (EntryAt(holding_date) <=>
            /\ cross # <<>>
            /\ holding_date \in retsIndex
            /\ \E a \in Range(tickers) : HasRet(a))
    /\ \A i \in DOMAIN port_rets : port_rets[i].val.cnt > 0

\* a period skipped because none of the selected assets has a return
C2_Witness ==
    /\ AfterBody
    /\ cross # <<>>
    /\ holding_date \in retsIndex
    /\ Cols(tickers, retsCols) # <<>>
    /\ ~EntryAt(holding_date)

\* C3 (as amended): no portfolio is formed at the latest momentum date; every
\* entry is indexed at a momentum date that has a strictly earlier momentum
\* date, entries have strictly increasing dates (at most one per pair) and
\* there are at most (number of dates - 1) of them; with exactly 2 dates and
\* a non-missing return at the later date for a selected asset the output
\* has exactly 1 entry, indexed at the later date.
C3_NoEntryForLatestFormation ==
    /\ pc = "body" =>
          /\ formation_date # dates[Len(dates)]
          /\ formation_date < holding_date
    /\ \A i \in DOMAIN port_rets :
          /\ port_rets[i].date \in Range(dates)
          /\ \E d \in Range(dates) : d < port_rets[i].date
    /\ \A i, j \in DOMAIN port_rets :
          i < j => port_rets[i].date < port_rets[j].date
    /\ Len(port_rets) <= IF Len(dates) = 0 THEN 0 ELSE Len(dates) - 1
    /\ (/\ pc = "done"
        /\ Len(dates) = 2
        /\ dates[2] \in retsIndex
        /\ \E a \in Range(tickers) : HasRet(a))
       => result.index = <<dates[2]>>

\* two momentum dates, and the one entry at the later date
C3_Witness ==
    /\ pc = "done"
    /\ Len(dates) = 2
    /\ result.index = <<dates[2]>>

\* C3 as stated: with exactly 2 formation dates (a score is defined at the
\* earlier one) and a returns panel covering the later date (its row there
\* holds a return) the output has exactly 1 entry, indexed at the later date.
C3_Original ==
    (/\ pc = "done"
     /\ Len(dates) = 2
     /\ cross # <<>>
     /\ dates[2] \in retsIndex
     /\ \E a \in retsCols : rets_row[a] # NaN)
    => result.index = <<dates[2]>>

\* C4: for every emitted entry no date of the returns panel lies strictly
\* between the formation date and the holding date.
C4_HoldingImmediatelyFollows ==
    Emitted =>
       ~\E d \in retsIndex : formation_date < d /\ d < holding_date

\* the rows of c in descending score, equal scores in their order in c
StableSortDesc(c) ==
    LET p == CHOOSE q \in InjSeqs(1..Len(c), Len(c)) :
                \A i, j \in 1..Len(c) :
                   i < j => \/ c[q[i]].mom > c[q[j]].mom
                            \/ c[q[i]].mom = c[q[j]].mom /\ q[i] < q[j]
    IN  [i \in 1..Len(c) |-> c[p[i]]]

\* C6: assets of equal score are ranked in the table's row order, so the
\* selection is that of a stable descending sort.
C6_StableTieBreak ==
    (AfterBody /\ cross # <<>>) =>
       tickers = Tickers(HeadN(StableSortDesc(cross), top_n))

\* C7: when no pair of formation dates emits (a table of zero or one date
\* included), the function returns the empty series and raises no error.
C7_EmptySeriesNoError ==
    /\ pc \in {"main", "for", "body", "return", "done"}
    /\ Len(dates) <= 1 => port_rets = <<>>
    /\ (pc = "done" /\ port_rets = <<>>) =>
          /\ result.index = <<>>
          /\ result.values = <<>>

\* pairs of dates were tried, none emitted, and the empty series came back
C7_Witness ==
    /\ pc = "done"
    /\ Len(dates) >= 2
    /\ result.index = <<>>

\* C8: every returned series carries a name that encodes top_n and lookback.
C8_NameCarriesParameters ==
    pc = "done" => result.name = SeriesName(top_n, lookback)

\* the rows of c whose asset is eligible
EligibleRows(c) == SelectSeq(c, LAMBDA x : x.NR \in eligible)

\* C5: in the pipeline the ranking is over eligible assets only: when at
\* least top_n eligible assets have a defined score at the formation date
\* and a return at the holding date, the selected assets are the top_n
\* highest-scoring eligible ones and the emitted value is their mean.
C5_TopNOverEligibleOnly ==
    (/\ AfterBody
     /\ holding_date \in retsIndex
     /\ Cardinality({a \in eligible : InCross(a) /\ HasRet(a)}) >= top_n)
    => /\ Range(tickers) \subseteq eligible
       /\ IsTopK(tickers, EligibleRows(cross), top_n)
       /\ \E i \in DOMAIN port_rets :
             /\ port_rets[i].date = holding_date
             /\ port_rets[i].val = MeanOfAvailable(Range(tickers))

\* -------------------------------------------------------------- cum_index
\* returns of a series handed to cum_index (-1 is a total loss)
CumVals == (-1)..MaxRet

\* return series: distinct dates, in any row order, values possibly missing
SeriesInputs ==
    UNION {{s \in [1..n -> [date : 1..MaxLen, val : CumVals \cup {NaN}]] :
               \A i, j \in 1..n : i # j => s[i].date # s[j].date} :
           n \in 0..MaxLen}

\* .sort_index()
SortIndex(s) ==
    CHOOSE p \in InjSeqs(Range(s), Len(s)) :
        \A i, j \in 1..Len(s) : i < j => p[i].date < p[j].date

\* .dropna()
DropNaSeries(s) == SelectSeq(s, LAMBDA x : x.val # NaN)

\* .fillna(0)
FillNa0(s) ==
    [i \in 1..Len(s) |->
        [date |-> s[i].date, val |-> IF s[i].val = NaN THEN 0 ELSE s[i].val]]

RECURSIVE ProdOnePlus(_, _)
\* (1 + s[1]) * ... * (1 + s[k])
ProdOnePlus(s, k) ==
    IF k = 0 THEN 1 ELSE ProdOnePlus(s, k - 1) * (1 + s[k].val)

\* (1.0 + r).cumprod()
CumProd(s) ==
    [i \in 1..Len(s) |-> [date |-> s[i].date, val |-> ProdOnePlus(s, i)]]

\* .shift(1, fill_value=1.0)
Shift1(s) ==
    [i \in 1..Len(s) |->
        [date |-> s[i].date, val |-> IF i = 1 THEN 1 ELSE s[i - 1].val]]

\* cum * start
Scale(s, k) == [i \in 1..Len(s) |-> [date |-> s[i].date, val |-> s[i].val * k]]

\* momentum.metrics.cum_index
cum_index(rs, st) == Scale(Shift1(CumProd(FillNa0(SortIndex(rs)))), st)

\* build_portfolio.cum_index
cum_index_portfolio(rs, st) ==
    Scale(Shift1(CumProd(FillNa0(SortIndex(rs)))), st)

\* relative_performance.cum_index
cum_index_relative(rs, st) ==
    Scale(Shift1(CumProd(SortIndex(DropNaSeries(rs)))), st)

CumInit ==
    /\ eligible = Assets
    /\ universe = Assets
    /\ lookback = 6
    /\ top_n = 1
    /\ dates = <<>>
    /\ retsIndex = {}
    /\ retsCols = {}
    /\ pc = "idle"
    /\ t = 1
    /\ formation_date = NaN
    /\ holding_date = NaN
    /\ cross = <<>>
    /\ tickers = <<>>
    /\ rets_row = NoRow
    /\ r = <<>>
    /\ port_rets = <<>>
    /\ result = EmptySeries
    /\ returns \in SeriesInputs
    /\ start \in 1..MaxStart
    /\ cum = <<>>
    /\ cumBy = "none"
    /\ LibIdle

CallCumIndexMetrics ==
    /\ cum' = cum_index(returns, start)
    /\ cumBy' = "metrics"
    /\ UNCHANGED <<returns, start>>
    /\ UNCHANGED <<simVars, libVars>>

CallCumIndexPortfolio ==
    /\ cum' = cum_index_portfolio(returns, start)
    /\ cumBy' = "build_portfolio"
    /\ UNCHANGED <<returns, start>>
    /\ UNCHANGED <<simVars, libVars>>

CallCumIndexRelative ==
    /\ cum' = cum_index_relative(returns, start)
    /\ cumBy' = "relative_performance"
    /\ UNCHANGED <<returns, start>>
    /\ UNCHANGED <<simVars, libVars>>

CumNext ==
    \/ CallCumIndexMetrics
    \/ CallCumIndexPortfolio
    \/ CallCumIndexRelative

CumSpec == CumInit /\ [][CumNext]_vars

\* the return at sorted position k, a missing one counted as 0
RetAt(k) ==
    LET s == SortIndex(returns)
    IN  IF s[k].val = NaN THEN 0 ELSE s[k].val

RECURSIVE ProdFrom(_, _)
\* (1 + RetAt(lo)) * ... * (1 + RetAt(hi))
ProdFrom(lo, hi) ==
    IF hi < lo THEN 1 ELSE ProdFrom(lo, hi - 1) * (1 + RetAt(hi))

\* C9: cum_index(r, start) is start at the first position and, at every
\* later position, start times the product of (1 + r_i) over the positions
\* after the first up to and including that position (the first position's
\* own return is not applied), a missing return counting as 0.
C9_IndexAppliesReturnsAfterFirst ==
    cumBy \in {"metrics", "build_portfolio"} =>
       /\ Len(cum) = Len(returns)
       /\ \A k \in DOMAIN cum :
             cum[k].val = start * ProdFrom(2, k)

\* C10: every cumulative-index routine keeps one point per input date and
\* carries the chain across a missing return as across a return of 0.
C10_MissingReturnNeverDropped ==
    cumBy # "none" =>
       /\ Len(cum) = Len(returns)
       /\ {cum[k].date : k \in DOMAIN cum} = {returns[k].date : k \in DOMAIN returns}
       /\ \A k \in DOMAIN cum :
             k > 1 => cum[k].val = cum[k - 1].val * (1 + RetAt(k - 1))

\* ----------------------------------------------------- align_common_start
MaxAlignDate == 3

\* the simulator is not running
SimDataIdle ==
    /\ eligible = Assets
    /\ universe = Assets
    /\ lookback = 6
    /\ top_n = 1
    /\ dates = <<>>
    /\ retsIndex = {}
    /\ retsCols = {}
    /\ t = 1
    /\ formation_date = NaN
    /\ holding_date = NaN
    /\ cross = <<>>
    /\ tickers = <<>>
    /\ rets_row = NoRow
    /\ r = <<>>
    /\ port_rets = <<>>
    /\ result = EmptySeries

\* no call of cum_index was made
CumIdle ==
    /\ returns = <<>>
    /\ start = 1
    /\ cum = <<>>
    /\ cumBy = "none"

\* the keys of series_dict
AlignKeys == {"Top 1", "Top 2"}

\* monthly return series as the scripts hand them over: index sorted,
\* dates distinct, a value possibly missing
SeriesOn(D, V) ==
    {[i \in 1..Cardinality(D) |-> [date |-> SortedSeq(D)[i], val |-> f[i]]] :
        f \in [1..Cardinality(D) -> V]}

AlignSeries == UNION {SeriesOn(D, {NaN, 1}) : D \in SUBSET (1..MaxAlignDate)}

\* s.index
Index(s) == {s[i].date : i \in DOMAIN s}

MinOf(S) == CHOOSE d \in S : \A e \in S : d <= e

\* s.index.min()
IndexMin(s) == MinOf(Index(s))

SmallestOf(S) == CHOOSE d \in S : \A e \in S : d <= e

\* max(starts)
MaxOf(S) == CHOOSE d \in S : \A e \in S : d >= e

\* starts: the first date of every non-empty series and of the benchmark
Starts(sd, b) ==
    {IndexMin(sd[k]) : k \in {j \in DOMAIN sd : sd[j] # <<>>}}
       \cup (IF b # <<>> THEN {IndexMin(b)} ELSE {})

\* v[v.index >= common_start]
Trim(v, cs) == SelectSeq(v, LAMBDA x : x.date >= cs)

AlignInit ==
    /\ SimDataIdle
    /\ CumIdle
    /\ pc = "align"
    /\ series_dict \in [AlignKeys -> AlignSeries]
    /\ bench \in AlignSeries
    /\ aligned = <<>>
    /\ bench_aligned = <<>>
    /\ common_start = NaN
    /\ MetIdle
    /\ HacIdle
    /\ TableIdle
    /\ PrepIdle
    /\ OpsIdle

\* align_common_start(series_dict, bench); max of an empty list raises
\* ValueError
AlignCommonStart ==
    /\ pc = "align"
    /\ IF Starts(series_dict, bench) = {}
       THEN /\ pc' = "error"
            /\ UNCHANGED <<aligned, bench_aligned, common_start>>
       ELSE /\ common_start' = MaxOf(Starts(series_dict, bench))
            /\ aligned' = [k \in DOMAIN series_dict |->
                              Trim(series_dict[k], common_start')]
            /\ bench_aligned' = Trim(bench, common_start')
            /\ pc' = "done"
    /\ UNCHANGED <<series_dict, bench>>
    /\ UNCHANGED <<opsVars, simData, cumVars, metVars, hacVars, tableVars, prepVars>>

AlignNext == AlignCommonStart

AlignSpec == AlignInit /\ [][AlignNext]_vars

\* the input series of the call, the benchmark included
AlignInputs == {series_dict[k] : k \in DOMAIN series_dict} \cup {bench}

\* out holds exactly the observations of inp dated cs or later, unchanged
\* and in the same order
KeepsFrom(out, inp, cs) ==
    /\ Range(out) = {x \in Range(inp) : x.date >= cs}
    /\ Len(out) = Cardinality({x \in Range(inp) : x.date >= cs})
    /\ \A i, j \in DOMAIN out : i < j => out[i].date < out[j].date

\* C11: common_start is the latest of the earliest dates of the non-empty
\* series (benchmark included); every returned series holds exactly the
\* input's observations dated common_start or later, values unchanged; an
\* empty series is ignored for the maximum and returned empty; series
\* starting at months 1, 3 and 2 give common start 3.
C11_CommonStartIsLatestFirstDate ==
    pc = "done" =>
       /\ \E s \in AlignInputs \ {<<>>} :
             /\ common_start \in Index(s)
             /\ \A d \in Index(s) : common_start <= d
       /\ \A s \in AlignInputs \ {<<>>} : \E d \in Index(s) : d <= common_start
       /\ \A k \in DOMAIN series_dict :
             /\ KeepsFrom(aligned[k], series_dict[k], common_start)
             /\ series_dict[k] = <<>> => aligned[k] = <<>>
       /\ KeepsFrom(bench_aligned, bench, common_start)
       /\ bench = <<>> => bench_aligned = <<>>
       /\ (/\ \A k \in DOMAIN series_dict : series_dict[k] # <<>>
           /\ bench # <<>>
           /\ {series_dict["Top 1"][1].date, series_dict["Top 2"][1].date,
               bench[1].date} = {1, 2, 3})
          => common_start = 3

\* three series starting at 1, 3 and 2 were aligned and the one starting at 1
\* was trimmed
C11_Witness ==
    /\ pc = "done"
    /\ series_dict["Top 1"] # <<>> /\ series_dict["Top 1"][1].date = 1
    /\ series_dict["Top 2"] # <<>> /\ series_dict["Top 2"][1].date = 3
    /\ bench # <<>> /\ bench[1].date = 2
    /\ Len(aligned["Top 1"]) < Len(series_dict["Top 1"])

\* ------------------------------------------- cagr, ann_vol, sharpe, sortino
MaxMetLen == 3

\* monthly returns handed to the metrics, in whole returns: -2 .. MaxRet
MetVals == (-2)..MaxRet

MetSeries == UNION {SeriesOn(D, MetVals \cup {NaN}) : D \in SUBSET (1..MaxMetLen)}

\* np.nan
NaNVal == [kind |-> "nan"]

\* np.inf
InfVal == [kind |-> "inf"]

RECURSIVE SumVal(_)
SumVal(s) == IF s = <<>> THEN 0 ELSE s[1].val + SumVal(Tail(s))

RECURSIVE SumSq(_)
SumSq(s) == IF s = <<>> THEN 0 ELSE s[1].val * s[1].val + SumSq(Tail(s))

\* total ** (1 / yrs) - 1 with yrs = n / 12, kept as the pair (total, n)
PowMinusOne(total, n) == [kind |-> "pow", base |-> total, n |-> n]

\* s.std(ddof=1): the square root of num / den, NaN below two observations
Std(s) ==
    IF Len(s) < 2 THEN NaNVal
    ELSE [kind |-> "sqrt",
          num |-> Len(s) * SumSq(s) - SumVal(s) * SumVal(s),
          den |-> Len(s) * (Len(s) - 1)]

\* v * np.sqrt(12)
TimesSqrt12(v) ==
    IF v.kind = "sqrt" THEN [kind |-> "sqrt", num |-> 12 * v.num, den |-> v.den]
    ELSE v

\* bool(v): NaN is truthy, 0.0 is not
Truthy(v) == ~(v.kind = "sqrt" /\ v.num = 0)

GtZeroAlways(v) == TRUE

\* v > 0 (False for NaN)
GtZero(v) == v.kind = "sqrt" /\ v.num > 0

\* ret / vol
Ratio(a, b) == [kind |-> "ratio", num |-> a, den |-> b]

NegativesOrZero(s) == SelectSeq(s, LAMBDA x : x.val <= 0)

\* r[r < 0]
Negatives(s) == SelectSeq(s, LAMBDA x : x.val < 0)

cagr(rr) ==
    LET d == DropNaSeries(rr)
    IN  IF d = <<>> THEN NaNVal
        ELSE IF Len(d) > 0 THEN PowMinusOne(ProdOnePlus(d, Len(d)), Len(d))
        ELSE NaNVal

ann_vol(rr) ==
    LET d == DropNaSeries(rr)
    IN  IF Len(d) > 1 THEN TimesSqrt12(Std(d)) ELSE NaNVal

sharpe(rr) ==
    LET vol == ann_vol(rr)
        ret == cagr(rr)
    IN  IF Truthy(vol) /\ GtZero(vol) THEN Ratio(ret, vol) ELSE NaNVal

sortino(rr) ==
    LET d == DropNaSeries(rr)
        neg == Negatives(d)
        dvol == TimesSqrt12(Std(neg))
        ret == cagr(d)
    IN  IF d = <<>> THEN NaNVal
        ELSE IF Len(neg) = 0 THEN InfVal
        ELSE IF Truthy(dvol) /\ GtZero(dvol) THEN Ratio(ret, dvol)
        ELSE NaNVal

MetInit ==
    /\ SimDataIdle
    /\ CumIdle
    /\ AlignIdle
    /\ pc = "metrics"
    /\ series \in MetSeries
    /\ metric = [fn |-> "none", val |-> <<>>]
    /\ HacIdle
    /\ TableIdle
    /\ PrepIdle
    /\ OpsIdle

CallCagr ==
    /\ pc = "metrics"
    /\ metric' = [fn |-> "cagr", val |-> cagr(series)]
    /\ UNCHANGED <<pc, series, opsVars, simData, cumVars, alignVars, hacVars, tableVars,
                   prepVars>>

CallAnnVol ==
    /\ pc = "metrics"
    /\ metric' = [fn |-> "ann_vol", val |-> ann_vol(series)]
    /\ UNCHANGED <<pc, series, opsVars, simData, cumVars, alignVars, hacVars, tableVars,
                   prepVars>>

CallSharpe ==
    /\ pc = "metrics"
    /\ metric' = [fn |-> "sharpe", val |-> sharpe(series)]
    /\ UNCHANGED <<pc, series, opsVars, simData, cumVars, alignVars, hacVars, tableVars,
                   prepVars>>

CallSortino ==
    /\ pc = "metrics"
    /\ metric' = [fn |-> "sortino", val |-> sortino(series)]
    /\ UNCHANGED <<pc, series, opsVars, simData, cumVars, alignVars, hacVars, tableVars,
                   prepVars>>

MetNext ==
    \/ CallCagr
    \/ CallAnnVol
    \/ CallSharpe
    \/ CallSortino

MetSpec == MetInit /\ [][MetNext]_vars

\* the non-missing observations of the argument
Observed == {i \in DOMAIN series : series[i].val # NaN}

\* C15: sortino(r) is +infinity exactly when r has a non-missing observation
\* and none of its non-missing observations is strictly negative.
C15_SortinoInfiniteIffNoNegative ==
    metric.fn = "sortino" =>
       (metric.val = InfVal <=>
           /\ Observed # {}
           /\ \A i \in Observed : series[i].val >= 0)

\* sortino returned +infinity for a series holding a missing value and a
\* return of zero
C15_Witness ==
    /\ metric.fn = "sortino"
    /\ metric.val = InfVal
    /\ \E i \in DOMAIN series : series[i].val = NaN
    /\ \E i \in DOMAIN series : series[i].val = 0

\* C16: cagr is NaN without a non-missing observation; ann_vol is NaN below
\* two non-missing observations and a non-negative number from two on;
\* sharpe is NaN whenever ann_vol is zero or NaN; no call fails.
C16_UndefinedOnSmallSample ==
    /\ pc # "error"
    /\ (metric.fn = "cagr" /\ Observed = {}) => metric.val = NaNVal
    /\ metric.fn = "ann_vol" =>
          IF Cardinality(Observed) < 2 THEN metric.val = NaNVal
          ELSE /\ metric.val.kind = "sqrt"
               /\ metric.val.num >= 0
               /\ metric.val.den > 0
    /\ (/\ metric.fn = "sharpe"
        /\ \/ ann_vol(series) = NaNVal
           \/ ann_vol(series).num = 0)
       => metric.val = NaNVal

\* sharpe of two or more equal returns: the volatility is zero
C16_Witness ==
    /\ metric.fn = "sharpe"
    /\ metric.val = NaNVal
    /\ Cardinality(Observed) >= 2
    /\ ann_vol(series).kind = "sqrt"

\* ------------------------------------------------------------ hac_t_pvalue
MaxObs == 41
MaxGaps == 2

\* if len(a) < 8
MinObs == 8

\* p-values in units of 0.00001: the thresholds of _p_stars, their
\* neighbours and the two ends of [0, 1]
PVals == {0, 999, 1000, 4999, 5000, 9999, 10000, 100000}

\* active.dropna().values
DropNaValues(act) ==
    LET d == DropNaSeries(act) IN [i \in 1..Len(d) |-> d[i].val]

\* the largest k with k^4 <= n
Root4Floor(n) ==
    CHOOSE k \in 0..n : k * k * k * k <= n /\ (k + 1) * (k + 1) * (k + 1) * (k + 1) > n

TruncRoot4(n) == Root4Floor(n)

\* int(round(n ** 0.25)): n ** 0.25 is never halfway between two integers
\* (16 n is even, (2 k + 1)^4 is odd)
RoundRoot4(n) ==
    LET f == Root4Floor(n)
    IN  IF 16 * n >= (2 * f + 1) * (2 * f + 1) * (2 * f + 1) * (2 * f + 1)
        THEN f + 1 ELSE f

\* max(1, int(round(len(a) ** 0.25)))
Lags(n) == IF RoundRoot4(n) >= 1 THEN RoundRoot4(n) ELSE 1

\* sm.OLS(a, ones).fit(cov_type="HAC", maxlags=lags).pvalues[0]: the p-value
\* of mean / standard error; for a identically zero both are 0 and the
\* quotient is NaN, otherwise some number in [0, 1] (not computed here)
FitPValues(a, lags) ==
    IF \A i \in DOMAIN a : a[i] = 0 THEN {NaN} ELSE PVals

hac_t_pvalue_any_n(act) ==
    LET a == DropNaValues(act)
    IN  {[called |-> TRUE, lags |-> Lags(Len(a)), p_val |-> q] :
            q \in FitPValues(a, Lags(Len(a)))}

\* what hac_t_pvalue(act, lags=None) can return (the t-statistic, which no
\* caller reads, is left out)
hac_t_pvalue(act) ==
    LET a == DropNaValues(act)
    IN  IF Len(a) < MinObs
        THEN {[called |-> TRUE, lags |-> NaN, p_val |-> NaN]}
        ELSE {[called |-> TRUE, lags |-> Lags(Len(a)), p_val |-> q] :
                 q \in FitPValues(a, Lags(Len(a)))}

\* k missing observations followed by n observations of value v
MkActive(n, k, v) ==
    [i \in 1..(n + k) |-> [date |-> i, val |-> IF i <= k THEN NaN ELSE v]]

HacInit ==
    /\ SimDataIdle
    /\ CumIdle
    /\ AlignIdle
    /\ MetIdle
    /\ TableIdle
    /\ PrepIdle
    /\ OpsIdle
    /\ pc = "hac"
    /\ \E n \in 0..MaxObs, k \in 0..MaxGaps, v \in {0, 1} :
          active = MkActive(n, k, v)
    /\ hac_out = [called |-> FALSE, lags |-> NaN, p_val |-> NaN]

CallHac ==
    /\ pc = "hac"
    /\ hac_out' \in hac_t_pvalue(active)
    /\ pc' = "done"
    /\ UNCHANGED <<active, opsVars, simData, cumVars, alignVars, metVars, tableVars,
                   prepVars>>

HacNext == CallHac

HacSpec == HacInit /\ [][HacNext]_vars

\* the number of non-missing observations handed to hac_t_pvalue
NObs == Cardinality({i \in DOMAIN active : active[i].val # NaN})

\* C13: on n >= 8 observations and no explicit lag count, the lags used are
\* the integer k >= 1 nearest to the fourth root of n: no integer j >= 1 is
\* nearer (j < k: n^0.25 >= (j + k) / 2;  j > k: n^0.25 <= (j + k) / 2).
C13_LagsAreRoundedFourthRoot ==
    (hac_out.called /\ NObs >= MinObs) =>
       /\ hac_out.lags >= 1
       /\ \A j \in 1..MaxObs :
             LET m == (j + hac_out.lags) * (j + hac_out.lags)
             IN  /\ j < hac_out.lags => 16 * NObs >= m * m
                 /\ j > hac_out.lags => 16 * NObs <= m * m

\* 40 or more observations: the fourth root rounds up to 3
C13_Witness ==
    /\ hac_out.called
    /\ NObs >= 40
    /\ hac_out.lags = 3
    /\ Len(active) > NObs

\* ----------------------------------------------------------- metrics_table
MaxTabDate == 8

\* _p_stars thresholds 0.01, 0.05, 0.10 in units of 0.00001
P01 == 1000
P05 == 5000
P10 == 10000

RECURSIVE Ascending(_)
\* the dates of D in increasing order
Ascending(D) ==
    IF D = {} THEN <<>> ELSE <<MinOf(D)>> \o Ascending(D \ {MinOf(D)})

\* the observation of s at date d
At(s, d) == CHOOSE x \in Range(s) : x.date = d

\* .sort_index()
SortByDate(s) == [i \in 1..Len(s) |-> At(s, Ascending(Index(s))[i])]

\* what a month is for the pair (strategy, benchmark)
Kinds == {"equal", "differ", "unpaired"}

\* an unpaired month: by turns the strategy's value is missing, the strategy
\* has no row, the benchmark's value is missing, the benchmark has no row
StratHasRow(k, d) == ~(k[d] = "unpaired" /\ d % 4 = 2)

StratVal(k, d) == IF k[d] = "unpaired" /\ d % 4 = 1 THEN NaN ELSE 1

BenchHasRow(k, d) == ~(k[d] = "unpaired" /\ d % 4 = 0)

BenchVal(k, d) ==
    IF k[d] = "unpaired" /\ d % 4 = 3 THEN NaN
    ELSE IF k[d] = "differ" THEN 0 ELSE 1

StratOf(k) ==
    LET D == Ascending({d \in DOMAIN k : StratHasRow(k, d)})
    IN  [i \in 1..Len(D) |-> [date |-> D[i], val |-> StratVal(k, D[i])]]

BenchOf(k) ==
    LET D == Ascending({d \in DOMAIN k : BenchHasRow(k, d)})
    IN  [i \in 1..Len(D) |-> [date |-> D[i], val |-> BenchVal(k, D[i])]]

\* bench_name in named_series
HasKey(ns, name) == \E i \in DOMAIN ns : ns[i].name = name

\* named_series[name]
Get(ns, name) == (CHOOSE x \in Range(ns) : x.name = name).s

\* p_aligned, b_aligned = s.align(bench, join="inner"); p_aligned - b_aligned
ActiveOf(s, b) ==
    LET both == SelectSeq(s, LAMBDA x : x.date \in Index(b))
    IN  [i \in 1..Len(both) |->
            [date |-> both[i].date, val |-> both[i].val - At(b, both[i].date).val]]

\* the cell of the benchmark's own row
Dash == [kind |-> "dash", digits |-> NaN, stars |-> 0]

\* f"{p:.4f}": p rounded to units of 0.0001
Round4(p) == (p + 5) \div 10

p_stars_inclusive(p) ==
    IF p = NaN THEN [kind |-> "nan", digits |-> NaN, stars |-> 0]
    ELSE [kind |-> "p", digits |-> Round4(p),
          stars |-> IF p <= P01 THEN 3 ELSE IF p <= P05 THEN 2
                    ELSE IF p <= P10 THEN 1 ELSE 0]

\* _p_stars
p_stars(p) ==
    IF p = NaN THEN [kind |-> "nan", digits |-> NaN, stars |-> 0]
    ELSE [kind |-> "p", digits |-> Round4(p),
          stars |-> IF p < P01 THEN 3 ELSE IF p < P05 THEN 2
                    ELSE IF p < P10 THEN 1 ELSE 0]

\* [name, ret, vol, sh, so, p_fmt]
TableRowOf(name, s, p_fmt) ==
    [Portfolio |-> name, ret |-> cagr(s), vol |-> ann_vol(s),
     sh |-> sharpe(s), so |-> sortino(s), p_fmt |-> p_fmt]

\* metrics_table(named_series, bench_name) on a strategy and, in all but
\* one case, the benchmark
TableInit ==
    /\ SimDataIdle
    /\ CumIdle
    /\ AlignIdle
    /\ MetIdle
    /\ HacIdle
    /\ PrepIdle
    /\ OpsIdle
    /\ pc = "table"
    /\ bench_name = "Benchmark"
    /\ \E k \in [1..MaxTabDate -> Kinds], withBench \in BOOLEAN :
          named_series =
             <<[name |-> "Top 1", s |-> StratOf(k)]>> \o
             (IF withBench THEN <<[name |-> "Benchmark", s |-> BenchOf(k)]>>
              ELSE <<>>)
    /\ table_rows = <<>>

\* if bench_name not in named_series: raise ValueError
TableStart ==
    /\ pc = "table"
    /\ pc' = IF HasKey(named_series, bench_name) THEN "rows" ELSE "error"
    /\ UNCHANGED <<opsVars, simData, cumVars, alignVars, metVars, hacVars, tableVars,
                   prepVars>>

\* one iteration of: for name, s in named_series.items()
TableRow ==
    /\ pc = "rows"
    /\ Len(table_rows) < Len(named_series)
    /\ LET name == named_series[Len(table_rows) + 1].name
           s == SortByDate(DropNaSeries(named_series[Len(table_rows) + 1].s))
           b == SortByDate(DropNaSeries(Get(named_series, bench_name)))
       IN  IF name = bench_name
           THEN /\ table_rows' = Append(table_rows, TableRowOf(name, s, Dash))
                /\ UNCHANGED hacVars
           ELSE /\ active' = ActiveOf(s, b)
                /\ hac_out' \in hac_t_pvalue(active')
                /\ table_rows' =
                      Append(table_rows,
                             TableRowOf(name, s, p_stars(hac_out'.p_val)))
    /\ UNCHANGED <<pc, named_series, bench_name>>
    /\ UNCHANGED <<opsVars, simData, cumVars, alignVars, metVars, prepVars>>

\* return df
TableReturn ==
    /\ pc = "rows"
    /\ Len(table_rows) = Len(named_series)
    /\ pc' = "done"
    /\ UNCHANGED <<opsVars, simData, cumVars, alignVars, metVars, hacVars, tableVars,
                   prepVars>>

TableNext ==
    \/ TableStart
    \/ TableRow
    \/ TableReturn

TableSpec == TableInit /\ [][TableNext]_vars

\* the strategy's row has been computed
StrategyRowDone ==
    /\ pc \in {"rows", "done"}
    /\ \E i \in DOMAIN table_rows : table_rows[i].Portfolio # bench_name

\* the value of series s at date d is present and not missing
Present(s, d) == \E i \in DOMAIN s : s[i].date = d /\ s[i].val # NaN

\* the dates at which both the strategy and the benchmark have a value
PairedDates ==
    {d \in 1..MaxTabDate :
        /\ Present(Get(named_series, "Top 1"), d)
        /\ Present(Get(named_series, bench_name), d)}

\* the significance cell of the strategy's row
StrategyCell ==
    (CHOOSE x \in Range(table_rows) : x.Portfolio # bench_name).p_fmt

\* the active series is the difference strategy - benchmark on exactly the
\* paired dates
ActiveIsPairedDifference ==
    /\ Index(active) = PairedDates
    /\ \A i \in DOMAIN active :
          active[i].val = At(Get(named_series, "Top 1"), active[i].date).val
                          - At(Get(named_series, bench_name), active[i].date).val

StarsFor(p) ==
    IF p # NaN /\ p < P01 THEN 3
    ELSE IF p # NaN /\ P01 <= p /\ p < P05 THEN 2
    ELSE IF p # NaN /\ P05 <= p /\ p < P10 THEN 1
    ELSE 0

\* C14: the benchmark's row carries no significance value; every other
\* row's cell is the p-value with '***' below 0.01, '**' from 0.01 to below
\* 0.05, '*' from 0.05 to below 0.10 and no star otherwise; without the
\* benchmark name among the series the call raises instead of returning.
C14_StarsAndBenchmarkRow ==
    /\ \A i \in DOMAIN table_rows :
          IF table_rows[i].Portfolio = bench_name
          THEN table_rows[i].p_fmt = Dash
          ELSE /\ table_rows[i].p_fmt.kind \in {"p", "nan"}
               /\ table_rows[i].p_fmt.kind = "nan" <=> hac_out.p_val = NaN
               /\ table_rows[i].p_fmt.kind = "p" =>
                     table_rows[i].p_fmt.digits = Round4(hac_out.p_val)
               /\ table_rows[i].p_fmt.stars = StarsFor(hac_out.p_val)
    /\ ~HasKey(named_series, bench_name) =>
          /\ pc \in {"table", "error"}
          /\ table_rows = <<>>
    /\ pc = "done" =>
          /\ HasKey(named_series, bench_name)
          /\ Len(table_rows) = Len(named_series)

\* the table came back with a p-value of exactly 0.01 carrying two stars
C14_Witness ==
    /\ pc = "done"
    /\ hac_out.p_val = P01
    /\ StrategyCell.stars = 2
    /\ \E i \in DOMAIN table_rows : table_rows[i].p_fmt = Dash

\* ------------------------------------------------------- compute_momentum
MaxHist == 4
MaxLookback == 2

\* a price entry that is not a number
Junk == -999

\* price levels: 1 -> 3 is a rise of 200%, 0 is a zero price
PriceLevels == {0, 1, 3}

\* the entries of a stock column of the raw file
RawPrices == PriceLevels \cup {NaN, Junk}

\* pd.to_numeric(..., errors="coerce")
ToNumeric(x) == IF x = Junk THEN NaN ELSE x

Numeric(col) == [i \in 1..Len(col) |-> ToNumeric(col[i])]

\* .shift(k)
ShiftRows(col, k) == [i \in 1..Len(col) |-> IF i > k THEN col[i - k] ELSE NaN]

\* a / b in floating point: NaN propagates, x / 0 is inf, 0 / 0 is NaN
Quot(a, b) ==
    IF a = NaN \/ b = NaN THEN NaNVal
    ELSE IF b = 0 THEN (IF a = 0 THEN NaNVal ELSE InfVal)
    ELSE [kind |-> "num", num |-> a, den |-> b]

MinusOneNot(q) == q

\* q - 1.0
MinusOne(q) ==
    IF q.kind = "num" THEN [kind |-> "num", num |-> q.num - q.den, den |-> q.den]
    ELSE q

MomWideNoLag(col, L) ==
    [i \in 1..Len(col) |-> MinusOne(Quot(col[i], ShiftRows(col, L)[i]))]

\* px.shift(1) / px.shift(1 + lookback) - 1.0
MomWide(col, L) ==
    [i \in 1..Len(col) |->
        MinusOne(Quot(ShiftRows(col, 1)[i], ShiftRows(col, 1 + L)[i]))]

\* .melt(id_vars="date", var_name="NR", value_name=...): rows by date
Melt(w) == [i \in 1..Len(w) |-> [date |-> i, NR |-> "NR", val |-> w[i]]]

\* .dropna(subset=[value column]); inf is not a missing value
DropNaRows(tbl) == SelectSeq(tbl, LAMBDA x : x.val.kind # "nan")

\* build_momentum_multi.compute_momentum for one stock column
compute_momentum(col, L) == DropNaRows(Melt(MomWide(Numeric(col), L)))

\* stock columns of at most n rows
Columns(n) == UNION {[1..k -> RawPrices] : k \in 0..n}

MomInit ==
    /\ SimDataIdle
    /\ CumIdle
    /\ AlignIdle
    /\ MetIdle
    /\ HacIdle
    /\ TableIdle
    /\ OpsIdle
    /\ pc = "momentum"
    /\ px \in Columns(MaxHist)
    /\ \/ px_alt = px
       \/ \E j \in DOMAIN px, v \in RawPrices : px_alt = [px EXCEPT ![j] = v]
    /\ mom_L \in 1..MaxLookback
    /\ mom_long = <<>>
    /\ mom_alt = <<>>
    /\ mom_files = <<>>
    /\ rets_long = <<>>
    /\ rets_col = <<>>

\* compute_momentum(levels, lookback), on the column and on its variant
ComputeMomentum ==
    /\ pc = "momentum"
    /\ mom_long' = compute_momentum(px, mom_L)
    /\ mom_alt' = compute_momentum(px_alt, mom_L)
    /\ pc' = "done"
    /\ UNCHANGED <<px, px_alt, mom_L, mom_files, rets_long, rets_col>>
    /\ UNCHANGED <<opsVars, simData, cumVars, alignVars, metVars, hacVars, tableVars>>

MomNext == ComputeMomentum

MomSpec == MomInit /\ [][MomNext]_vars

\* table tbl has a row at date i
HasRowAt(tbl, i) == \E k \in DOMAIN tbl : tbl[k].date = i

\* the rows of tbl at date i (none or one)
RowsAt(tbl, i) == {tbl[k].val : k \in {j \in DOMAIN tbl : tbl[j].date = i}}

\* the entry of col at row i is a number
IsPrice(col, i) == i \in DOMAIN col /\ col[i] \in PriceLevels

\* the entry of col at row i, none when i is before the first row
EntryOf(col, i) == IF i \in DOMAIN col THEN col[i] ELSE NaN

\* the score at row i uses the prices at rows i - 1 and i - 1 - L only:
\* a column that agrees there has the same score (or the same absence)
DependsOnLaggedEndpointsOnly ==
    \A i \in DOMAIN px :
       (/\ EntryOf(px, i - 1) = EntryOf(px_alt, i - 1)
        /\ EntryOf(px, i - 1 - mom_L) = EntryOf(px_alt, i - 1 - mom_L))
       => RowsAt(mom_long, i) = RowsAt(mom_alt, i)

\* C17 (as amended): the score at row i is defined exactly when the prices at
\* rows i - 1 and i - 1 - L are both present and not both zero; it depends
\* only on those two prices (the price at row i or later never matters) and
\* a missing endpoint gives no score.
C17_ScoreUsesLaggedPricesOnly ==
    pc = "done" =>
       /\ \A i \in DOMAIN px :
             HasRowAt(mom_long, i) <=>
                /\ IsPrice(px, i - 1)
                /\ IsPrice(px, i - 1 - mom_L)
                /\ ~(px[i - 1] = 0 /\ px[i - 1 - mom_L] = 0)
       /\ DependsOnLaggedEndpointsOnly

\* the current price was changed and a score exists at that row
C17_Witness ==
    /\ pc = "done"
    /\ \E i \in DOMAIN px :
          /\ px[i] # px_alt[i]
          /\ HasRowAt(mom_long, i)
          /\ HasRowAt(mom_alt, i)

\* C17 as stated: the score at row i is defined if and only if the prices
\* at rows i - 1 and i - 1 - L are both present, and depends on them only.
C17_Original ==
    pc = "done" =>
       /\ \A i \in DOMAIN px :
             HasRowAt(mom_long, i) <=>
                (IsPrice(px, i - 1) /\ IsPrice(px, i - 1 - mom_L))
       /\ DependsOnLaggedEndpointsOnly

\* C18: no score in the first L + 1 rows; a constant non-zero price has the
\* score exactly 0 at every later row.
C18_NoScoreInFirstRowsZeroOnConstant ==
    pc = "done" =>
       /\ \A k \in DOMAIN mom_long : mom_long[k].date > mom_L + 1
       /\ \A c \in PriceLevels \ {0} :
             (\A i \in DOMAIN px : px[i] = c) =>
                \A i \in DOMAIN px :
                   i > mom_L + 1 =>
                      RowsAt(mom_long, i) = {[kind |-> "num", num |-> 0, den |-> c]}

\* a constant price of 3 over more than L + 1 rows
C18_Witness ==
    /\ pc = "done"
    /\ Len(px) > mom_L + 1
    /\ \A i \in DOMAIN px : px[i] = 3
    /\ mom_long # <<>>

\* --------------------------------- the momentum files and their consumer
MaxRows == 8

AnyValue(v) == TRUE

\* (x > -2.0) & (x < 2.0); inf and -inf fail it (den is a positive price)
InOpen2(v) == v.kind = "num" /\ v.num > -2 * v.den /\ v.num < 2 * v.den

\* build_momentum.py main for one eligible stock column:
\* shift(1) / shift(7) - 1, melt, dropna, outlier guard
build_momentum(col) ==
    SelectSeq(DropNaRows(Melt(MomWide(Numeric(col), 6))),
              LAMBDA x : InOpen2(x.val))

\* momentum_long_{L}m.csv
MultiFile(L) == <<"momentum_long", L>>

\* build_momentum_multi.py main: one file per lookback of LOOKBACKS
MultiFiles(col) ==
    [f \in {MultiFile(L) : L \in Lookbacks} |-> compute_momentum(col, f[2])]

FilesInit ==
    /\ SimDataIdle
    /\ CumIdle
    /\ AlignIdle
    /\ MetIdle
    /\ HacIdle
    /\ TableIdle
    /\ OpsIdle
    /\ pc = "raw"
    /\ px \in [1..MaxRows -> PriceLevels \cup {NaN}]
    /\ px_alt = <<>>
    /\ mom_L = 1
    /\ mom_long = <<>>
    /\ mom_alt = <<>>
    /\ mom_files = <<>>
    /\ rets_long = <<>>
    /\ rets_col = <<>>

\* python scripts/build_momentum.py: writes momentum_long.csv
RunBuildMomentum ==
    /\ pc = "raw"
    /\ mom_files' = [f \in {<<"momentum_long">>} |-> build_momentum(px)]
    /\ pc' = "mom6"
    /\ UNCHANGED <<px, px_alt, mom_L, mom_long, mom_alt, rets_long, rets_col>>
    /\ UNCHANGED <<opsVars, simData, cumVars, alignVars, metVars, hacVars, tableVars>>

\* python scripts/build_momentum_multi.py: writes momentum_long_{L}m.csv
RunBuildMomentumMulti ==
    /\ pc = "mom6"
    /\ mom_files' = mom_files @@ MultiFiles(px)
    /\ pc' = "files"
    /\ UNCHANGED <<px, px_alt, mom_L, mom_long, mom_alt, rets_long, rets_col>>
    /\ UNCHANGED <<opsVars, simData, cumVars, alignVars, metVars, hacVars, tableVars>>

\* load_inputs(lookback): mom = pd.read_csv(mom_path)
LoadMomentum ==
    /\ pc = "files"
    /\ \E L \in Lookbacks :
          /\ mom_L' = L
          /\ mom_long' = mom_files[MomFile(L)]
    /\ pc' = "loaded"
    /\ UNCHANGED <<px, px_alt, mom_alt, mom_files, rets_long, rets_col>>
    /\ UNCHANGED <<opsVars, simData, cumVars, alignVars, metVars, hacVars, tableVars>>

FilesNext ==
    \/ RunBuildMomentum
    \/ RunBuildMomentumMulti
    \/ LoadMomentum

FilesSpec == FilesInit /\ [][FilesNext]_vars

\* C19: for every lookback the momentum table the simulator consumes has no
\* row with a missing score and no row with a score outside (-2, 2); an
\* infinite score from a zero price at the far endpoint is not retained.
C19_ConsumedScoresInsideOutlierBand ==
    pc = "loaded" =>
       \A k \in DOMAIN mom_long :
          /\ mom_long[k].val.kind = "num"
          /\ mom_long[k].val.num > -2 * mom_long[k].val.den
          /\ mom_long[k].val.num < 2 * mom_long[k].val.den

\* ------------------------------------------------------ build_features.py
\* .pct_change(fill_method=None): col / col.shift(1) - 1
PctChange(col) ==
    [i \in 1..Len(col) |-> MinusOne(Quot(col[i], ShiftRows(col, 1)[i]))]

\* build_features.py main for one eligible stock column: to_numeric,
\* pct_change, melt, dropna, outlier guard
build_features(col) ==
    SelectSeq(DropNaRows(Melt(PctChange(Numeric(col)))),
              LAMBDA x : InOpen2(x.val))

\* rets_long.pivot(index="date", columns="NR", values="ret_1m").sort_index()
\* for the one column
Pivot(tbl) ==
    [i \in 1..Len(tbl) |->
        [date |-> Ascending(Index(tbl))[i],
         val |-> At(tbl, Ascending(Index(tbl))[i]).val]]

FeatInit ==
    /\ SimDataIdle
    /\ CumIdle
    /\ AlignIdle
    /\ MetIdle
    /\ HacIdle
    /\ TableIdle
    /\ OpsIdle
    /\ pc = "raw"
    /\ px \in Columns(MaxHist)
    /\ px_alt = <<>>
    /\ mom_L = 1
    /\ mom_long = <<>>
    /\ mom_alt = <<>>
    /\ mom_files = <<>>
    /\ rets_long = <<>>
    /\ rets_col = <<>>

\* python scripts/build_features.py: writes stock_returns_long.csv
RunBuildFeatures ==
    /\ pc = "raw"
    /\ rets_long' = build_features(px)
    /\ pc' = "features"
    /\ UNCHANGED <<px, px_alt, mom_L, mom_long, mom_alt, mom_files, rets_col>>
    /\ UNCHANGED <<opsVars, simData, cumVars, alignVars, metVars, hacVars, tableVars>>

\* load_inputs: rets_wide from stock_returns_long.csv
LoadReturns ==
    /\ pc = "features"
    /\ rets_col' = Pivot(rets_long)
    /\ pc' = "loaded"
    /\ UNCHANGED <<px, px_alt, mom_L, mom_long, mom_alt, mom_files, rets_long>>
    /\ UNCHANGED <<opsVars, simData, cumVars, alignVars, metVars, hacVars, tableVars>>

FeatNext ==
    \/ RunBuildFeatures
    \/ LoadReturns

FeatSpec == FeatInit /\ [][FeatNext]_vars

\* the row is the return of px from the previous row to its own, both prices
\* present, and lies inside (-2, 2)
IsRetainedReturn(row) ==
    /\ IsPrice(px, row.date)
    /\ IsPrice(px, row.date - 1)
    /\ px[row.date - 1] # 0
    /\ row.val = [kind |-> "num",
                  num |-> px[row.date] - px[row.date - 1],
                  den |-> px[row.date - 1]]
    /\ row.val.num > -2 * row.val.den
    /\ row.val.num < 2 * row.val.den

\* C20: every return retained in the long table, and so in the panel read
\* from it, is price / previous price - 1 with both prices present and is
\* inside (-2, 2); a return whose prior price is zero, missing or not a
\* number is absent.
C20_RetainedReturnsAreBoundedRatios ==
    /\ \A k \in DOMAIN rets_long : IsRetainedReturn(rets_long[k])
    /\ \A k \in DOMAIN rets_col : IsRetainedReturn(rets_col[k])
    /\ pc = "loaded" => Index(rets_col) = Index(rets_long)
    /\ pc \in {"features", "loaded"} =>
          \A i \in DOMAIN px :
             (i = 1 \/ px[i - 1] \in {0, NaN, Junk}) => ~HasRowAt(rets_long, i)

\* a return was retained while another, after a zero price, was left out
C20_Witness ==
    /\ pc = "loaded"
    /\ rets_col # <<>>
    /\ \E i \in DOMAIN px : i > 1 /\ px[i - 1] = 0 /\ px[i] = 3

\* ------------------------------------------------ the scripts' other state
\* the variables of the simulator and of the routines above, pc excluded
baseVars == <<simData, cumVars, alignVars, metVars, hacVars, tableVars,
              prepVars>>

\* none of them is in use
BaseIdle ==
    /\ SimDataIdle
    /\ CumIdle
    /\ AlignIdle
    /\ MetIdle
    /\ HacIdle
    /\ TableIdle
    /\ PrepIdle

\* ------------------------------------------- trimming to the common start
\* build_portfolio.main, lines 216-226: series_list, starts, common_start,
\* bench_aligned and ports_aligned, on the dict port_monthly and bench
MainTrim ==
    /\ pc = "align"
    /\ IF Starts(series_dict, bench) = {}
       THEN /\ pc' = "error"
            /\ UNCHANGED <<aligned, bench_aligned, common_start>>
       ELSE /\ common_start' = MaxOf(Starts(series_dict, bench))
            /\ bench_aligned' = Trim(bench, common_start')
            /\ aligned' = [k \in DOMAIN series_dict |->
                              Trim(series_dict[k], common_start')]
            /\ pc' = "trimmed"
    /\ UNCHANGED <<series_dict, bench>>
    /\ UNCHANGED <<opsVars, simData, cumVars, metVars, hacVars, tableVars,
                   prepVars>>

TrimNext ==
    \/ AlignCommonStart
    \/ MainTrim

TrimSpec == AlignInit /\ [][TrimNext]_vars

\* s has an observation dated cs or later
HasDataFrom(s, cs) == \E i \in DOMAIN s : s[i].date >= cs

\* C28: after the trim to the common start (align_common_start, and the
\* same steps in build_portfolio.main) every series that was non-empty on
\* input, the benchmark included, keeps at least one observation dated
\* common_start or later.
C28_NonEmptySeriesKeepData ==
    pc \in {"done", "trimmed"} =>
       /\ \A k \in DOMAIN series_dict :
             series_dict[k] # <<>> => HasDataFrom(aligned[k], common_start)
       /\ bench # <<>> => HasDataFrom(bench_aligned, common_start)

\* ------------------------------------------- parsing of numeric fields
MaxCellLen == 4

\* the characters of the raw cells
CellChars == {"1", "e", ".", "-", ",", "$"}

\* a cell is a sequence of characters; an empty CSV field reads as NaN, which
\* astype(str) turns into "nan" and the regex into ""
CellStrings == UNION {[1..n -> CellChars] : n \in 0..MaxCellLen}

DigitChars == <<"0", "1", "2", "3", "4", "5", "6", "7", "8", "9">>

Digits == Range(DigitChars)

DigitVal(c) == (CHOOSE i \in DOMAIN DigitChars : DigitChars[i] = c) - 1

\* the characters r"[^\d.\-eE]" leaves
KeptChars == Digits \cup {".", "-", "e", "E"}

\* .str.replace(r"[^\d.\-eE]", "", regex=True)
StripNonNumeric(str) == SelectSeq(str, LAMBDA c : c \in KeptChars)

\* the scanner of float(): q is the position in
\* [sign] (digits [. [digits]] | . digits) [(e|E) [sign] digits]
ScanStart ==
    [q |-> "start", neg |-> FALSE, mant |-> 0, frac |-> 0, eneg |-> FALSE,
     e |-> 0]

ScanStep(st, c) ==
    CASE st.q \in {"start", "sign"} /\ c \in Digits ->
            [st EXCEPT !.q = "int", !.mant = DigitVal(c)]
      [] st.q = "start" /\ c = "-" -> [st EXCEPT !.q = "sign", !.neg = TRUE]
      [] st.q \in {"start", "sign"} /\ c = "." -> [st EXCEPT !.q = "dot"]
      [] st.q = "int" /\ c \in Digits ->
            [st EXCEPT !.mant = 10 * st.mant + DigitVal(c)]
      [] st.q = "int" /\ c = "." -> [st EXCEPT !.q = "frac"]
      [] st.q \in {"dot", "frac"} /\ c \in Digits ->
            [st EXCEPT !.q = "frac", !.mant = 10 * st.mant + DigitVal(c),
                       !.frac = st.frac + 1]
      [] st.q \in {"int", "frac"} /\ c \in {"e", "E"} -> [st EXCEPT !.q = "exp"]
      [] st.q = "exp" /\ c = "-" -> [st EXCEPT !.q = "expsign", !.eneg = TRUE]
      [] st.q \in {"exp", "expsign", "expdigits"} /\ c \in Digits ->
            [st EXCEPT !.q = "expdigits", !.e = 10 * st.e + DigitVal(c)]
      [] OTHER -> [st EXCEPT !.q = "bad"]

RECURSIVE Scan(_, _)
Scan(str, st) ==
    IF str = <<>> THEN st ELSE Scan(Tail(str), ScanStep(st, str[1]))

\* float(str) succeeds
IsFloatLiteral(str) == Scan(str, ScanStart).q \in {"int", "frac", "expdigits"}

\* the value of a literal: (-1)^neg * mant * 10^exp
FloatOf(str) ==
    LET st == Scan(str, ScanStart)
    IN  [kind |-> "num", neg |-> st.neg, mant |-> st.mant,
         exp |-> (IF st.eneg THEN -st.e ELSE st.e) - st.frac]

MissingVal == [kind |-> "nan"]

RaisedVal == [kind |-> "ValueError"]

\* one element of .replace({"": None}).astype(float): None becomes NaN and
\* any other string goes through float(), which raises ValueError on a
\* string that is not a literal
AsTypeFloat(str) ==
    IF str = <<>> THEN MissingVal
    ELSE IF IsFloatLiteral(str) THEN FloatOf(str)
    ELSE RaisedVal

\* _to_float_series(s): the element conversions, or the exception of the
\* first element that raises
to_float_series(col) ==
    LET conv == [i \in DOMAIN col |-> AsTypeFloat(StripNonNumeric(col[i]))]
    IN  IF \E i \in DOMAIN conv : conv[i] = RaisedVal
        THEN [raised |-> TRUE, vals |-> <<>>]
        ELSE [raised |-> FALSE, vals |-> conv]

\* one element of pd.to_numeric(..., errors="coerce")
CoerceNumeric(str) == IF IsFloatLiteral(str) THEN FloatOf(str) ELSE MissingVal

\* compute_momentum, lines 47-51: strip, then pd.to_numeric(errors="coerce")
to_numeric_stripped(col) ==
    [raised |-> FALSE,
     vals |-> [i \in DOMAIN col |-> CoerceNumeric(StripNonNumeric(col[i]))]]

\* a column of one raw cell
ParseInit ==
    /\ BaseIdle
    /\ pc = "parse"
    /\ \E str \in CellStrings : cells = <<str>>
    /\ parse_out = [fn |-> "none", val |-> <<>>]
    /\ UnivIdle /\ FsIdle /\ FrameIdle /\ SelIdle /\ DevIdle

\* basic[mcap_col] = _to_float_series(basic[mcap_col])
CallToFloatSeries ==
    /\ pc = "parse"
    /\ parse_out' = [fn |-> "_to_float_series", val |-> to_float_series(cells)]
    /\ pc' = IF parse_out'.val.raised THEN "error" ELSE "done"
    /\ UNCHANGED cells
    /\ UNCHANGED <<baseVars, univVars, fsVars, frameVars, selVars, devVars>>

\* df[c] = pd.to_numeric(df[c].astype(str).str.replace(...), errors="coerce")
CallToNumeric ==
    /\ pc = "parse"
    /\ parse_out' = [fn |-> "to_numeric", val |-> to_numeric_stripped(cells)]
    /\ pc' = "done"
    /\ UNCHANGED cells
    /\ UNCHANGED <<baseVars, univVars, fsVars, frameVars, selVars, devVars>>

ParseNext ==
    \/ CallToFloatSeries
    \/ CallToNumeric

ParseSpec == ParseInit /\ [][ParseNext]_vars

\* C22: unparsable numeric fields never raise: for every market-cap string
\* _to_float_series returns its numeric value or missing, also when what is
\* left after the stripping is not a number (a lone "-", ".", "e", several
\* dots); every price entry becomes a number or missing.
C22_UnparsableFieldsNeverRaise ==
    parse_out.fn # "none" =>
       /\ ~parse_out.val.raised
       /\ \A i \in DOMAIN parse_out.val.vals :
             parse_out.val.vals[i].kind \in {"num", "nan"}

\* ------------------------------------------------------ the universe filter
MaxIds == 2
MaxBasicRows == 2

\* asset ids: the NR of Basic_Data.csv and the column names of the price panel
Ids == 1..MaxIds

\* market-cap cells: missing, 9e9, 1e10, 2e10, $2e10 and an unparsable "-"
McapCells ==
    {<<>>, <<"9", "e", "9">>, <<"1", "e", "1", "0">>, <<"2", "e", "1", "0">>,
     <<"$", "2", "e", "1", "0">>, <<"-">>}

\* 10_000_000_000
CapThreshold == [kind |-> "num", neg |-> FALSE, mant |-> 1, exp |-> 10]

RECURSIVE Pow10(_)
Pow10(n) == IF n = 0 THEN 1 ELSE 10 * Pow10(n - 1)

AtLeast(v, thr) ==
    /\ v.kind = "num" /\ ~v.neg /\ v.mant > 0
    /\ IF v.exp >= thr.exp
       THEN TRUE
       ELSE thr.exp - v.exp <= 9 /\ v.mant >= Pow10(thr.exp - v.exp)

\* basic[mcap_col] > 10_000_000_000: NaN compares False
Exceeds(v, thr) ==
    /\ v.kind = "num" /\ ~v.neg /\ v.mant > 0
    /\ IF v.exp >= thr.exp
       THEN v.mant > 1 \/ v.exp > thr.exp
       ELSE thr.exp - v.exp <= 9 /\ v.mant > Pow10(thr.exp - v.exp)

\* basic[mcap_col] as a column
McapColumn(b) == [i \in DOMAIN b |-> b[i].mcap]

\* eligible_ids = set(basic.loc[basic[mcap_col] > 10_000_000_000, nr_col])
EligibleIds(b, caps) ==
    {b[i].NR : i \in {j \in DOMAIN b : Exceeds(caps[j], CapThreshold)}}

\* stock_cols = [c for c in all_stock_cols if str(c) in eligible_ids]
StockCols(cols, elig) == SelectSeq(cols, LAMBDA c : c \in elig)

FeatureFiles == {"stock_returns_wide.csv", "stock_returns_long.csv"}

MomentumFiles == {"momentum_wide.csv", "momentum_long.csv"}

UnivInit ==
    /\ BaseIdle
    /\ pc = "universe"
    /\ basic \in UNION {[1..n -> [NR : Ids, mcap : McapCells]] :
                           n \in 0..MaxBasicRows}
    /\ \E D \in SUBSET Ids : all_stock_cols = Ascending(D)
    /\ stock_cols = <<>>
    /\ written = <<>>
    /\ ParseIdle /\ FsIdle /\ FrameIdle /\ SelIdle /\ DevIdle

\* main of a builder from the market-cap parsing to the files it saves
FilterUniverse(files) ==
    /\ pc = "universe"
    /\ LET conv == to_float_series(McapColumn(basic))
       IN  IF conv.raised
           THEN /\ pc' = "error"
                /\ UNCHANGED <<stock_cols, written>>
           ELSE /\ stock_cols' =
                      StockCols(all_stock_cols, EligibleIds(basic, conv.vals))
                /\ IF stock_cols' = <<>>
                   THEN /\ pc' = "error"
                        /\ UNCHANGED written
                   ELSE /\ pc' = "done"
                        /\ written' = [f \in files |-> stock_cols']
    /\ UNCHANGED <<basic, all_stock_cols>>
    /\ UNCHANGED <<baseVars, parseVars, fsVars, frameVars, selVars, devVars>>

\* python scripts/build_features.py
FilterFeatures == FilterUniverse(FeatureFiles)

\* python scripts/build_momentum.py
FilterMomentum == FilterUniverse(MomentumFiles)

UnivNext ==
    \/ FilterFeatures
    \/ FilterMomentum

UnivSpec == UnivInit /\ [][UnivNext]_vars

\* the cells that hold a market cap above 10e9
CapsAbove == {<<"2", "e", "1", "0">>, <<"$", "2", "e", "1", "0">>}

\* the cells that hold a market cap
CapsParsable == McapCells \ {<<"-">>}

\* the panel columns whose asset has a market cap above the threshold
LargeCapColumns ==
    {c \in Range(all_stock_cols) :
        \E i \in DOMAIN basic : basic[i].NR = c /\ basic[i].mcap \in CapsAbove}

\* C21: the universe filter keeps exactly the price-panel columns whose asset
\* id has a market cap strictly above 10,000,000,000 (a cap at the threshold
\* or missing is excluded) and raises, writing no file, when no column is
\* left.
C21_UniverseIsLargeCapColumns ==
    /\ pc = "done" =>
          /\ Range(stock_cols) = LargeCapColumns
          /\ stock_cols # <<>>
          /\ \A f \in DOMAIN written : Range(written[f]) = LargeCapColumns
    /\ (pc \in {"done", "error"} /\ LargeCapColumns = {}) =>
          pc = "error" /\ written = <<>>
    /\ pc = "error" =>
          /\ written = <<>>
          /\ \/ LargeCapColumns = {}
             \/ \E i \in DOMAIN basic : basic[i].mcap \notin CapsParsable

\* a run kept one column and left out a column whose cap is at the threshold
C21_Witness ==
    /\ pc = "done"
    /\ DOMAIN written # {}
    /\ \E c \in Range(all_stock_cols) :
          /\ c \notin Range(stock_cols)
          /\ \E i \in DOMAIN basic :
                basic[i].NR = c /\ basic[i].mcap = <<"1", "e", "1", "0">>

\* ------------------------------------- the scripts and the files they share
PORT_SIZES == <<10, 20, 30, 40, 50>>

HORIZONS == <<1, 3, 6, 12>>

\* DATA / f"portfolio_returns_top{n}.csv"
PortfolioFile(n) == <<"portfolio_returns_top", n>>

\* RES / f"portfolio_top{n}.png"
PlotFile(n) == <<"portfolio_top", n>>

\* RES / f"portfolios_vs_benchmark_{lookback}m.png"
CombinedPlot(L) == <<"portfolios_vs_benchmark", L>>

\* RES / f"metrics_summary_{lookback}m.csv"
MetricsSummary(L) == <<"metrics_summary", L>>

\* the series build_portfolio_returns(mom, rets_wide, n, lookback) returns,
\* known by the name to_csv(header=True) stores with it
BuiltSeries(n, L) == SeriesName(n, L)

\* d[f] = v
Store(d, f, v) == (f :> v) @@ d

\* one iteration of the loop over PORT_SIZES in build_portfolio.main: the
\* series is saved and its cumulative index plotted
SaveSeries(d, n, L) == Store(d, PortfolioFile(n), BuiltSeries(n, L))

SavePlot(d, n, L) == Store(d, PlotFile(n), BuiltSeries(n, L))

\* one iteration of the loop, on both directories
Iterate(fs, n, L) ==
    [data |-> SaveSeries(fs.data, n, L), res |-> SavePlot(fs.res, n, L)]

\* plot_all(cum_dict, bench_cum, ...) after the loop
AfterLoop(fs, L) == [fs EXCEPT !.res = Store(fs.res, CombinedPlot(L), L)]

RECURSIVE LoopFrom(_, _, _)
\* the iterations k..5 of the loop
LoopFrom(fs, k, L) ==
    IF k > Len(PORT_SIZES) THEN fs
    ELSE LoopFrom(Iterate(fs, PORT_SIZES[k], L), k + 1, L)

\* main of build_portfolio.py as far as files go
BuildPortfolioMain(fs, L) == AfterLoop(LoopFrom(fs, 1, L), L)

\* load_portfolios() can read every file
PortfoliosExist(d) ==
    \A i \in DOMAIN PORT_SIZES : PortfolioFile(PORT_SIZES[i]) \in DOMAIN d

\* metrics_table(named_all): one row per loaded series and the benchmark row
MetricsRows(d) ==
    [i \in 1..(Len(PORT_SIZES) + 1) |->
        IF i <= Len(PORT_SIZES)
        THEN [Portfolio |-> <<"Top", PORT_SIZES[i]>>,
              series |-> d[PortfolioFile(PORT_SIZES[i])]]
        ELSE [Portfolio |-> <<"Benchmark">>, series |-> <<"bench_ret">>]]

SummaryStems == {"performance_summary", "metrics_summary"}

\* the summary files a reader may look for
SummaryFiles ==
    {<<st, L>> : st \in SummaryStems, L \in Lookbacks}
       \cup {<<st>> : st \in SummaryStems}

NotFound == <<"FileNotFoundError">>

\* summarize_results.load_perf: the file it reads
load_perf(res, L) ==
    LET perf_path == IF L # 6 THEN <<"performance_summary", L>>
                     ELSE <<"performance_summary">>
        metr_path == IF L # 6 THEN <<"metrics_summary", L>>
                     ELSE <<"metrics_summary">>
    IN  IF perf_path \in DOMAIN res THEN perf_path
        ELSE IF metr_path \in DOMAIN res THEN metr_path
        ELSE NotFound

\* the first candidate that exists
FirstExisting(res, candidates) ==
    IF \E i \in DOMAIN candidates : candidates[i] \in DOMAIN res
    THEN candidates[CHOOSE i \in DOMAIN candidates :
                       /\ candidates[i] \in DOMAIN res
                       /\ \A j \in 1..(i - 1) : candidates[j] \notin DOMAIN res]
    ELSE NotFound

\* pretty_table._find_summary_path
find_summary_path(res, L) ==
    FirstExisting(res,
        <<(<<"performance_summary", L>>), (<<"metrics_summary", L>>)>>
           \o (IF L = 6
               THEN <<(<<"performance_summary">>), (<<"metrics_summary">>)>>
               ELSE <<>>))

\* python scripts/build_portfolio.py --lookback L, as one run
RunBuildPortfolio ==
    /\ pc = "runs"
    /\ \E L \in Lookbacks :
          LET fs == BuildPortfolioMain([data |-> processed, res |-> results], L)
          IN  /\ processed' = fs.data
              /\ results' = fs.res
              /\ built' = built \cup {L}
    /\ UNCHANGED <<pc, procs, lookup, run_all>>
    /\ UNCHANGED <<baseVars, parseVars, univVars, frameVars, selVars, devVars>>

\* python scripts/compute_metrics.py --lookback L: read_csv fails when a
\* portfolio file is missing and nothing is written
RunComputeMetrics ==
    /\ pc \in {"runs", "summaries"}
    /\ \E L \in Lookbacks :
          results' = IF PortfoliosExist(processed)
                     THEN Store(results, MetricsSummary(L),
                                MetricsRows(processed))
                     ELSE results
    /\ lookup' = <<>>
    /\ UNCHANGED <<pc, processed, built, procs, run_all>>
    /\ UNCHANGED <<baseVars, parseVars, univVars, frameVars, selVars, devVars>>

\* both directories hold no output of the scripts
RunsInit ==
    /\ BaseIdle
    /\ pc = "runs"
    /\ ParseIdle /\ UnivIdle /\ FsIdle /\ FrameIdle /\ SelIdle /\ DevIdle

RunsNext ==
    \/ RunBuildPortfolio
    \/ RunComputeMetrics

RunsSpec == RunsInit /\ [][RunsNext]_vars

\* the labels of a stored table, in row order
Labels(tbl) == [i \in DOMAIN tbl |-> tbl[i].Portfolio]

\* C23: after any sequence of runs of build_portfolio --lookback L and
\* compute_metrics --lookback L', the table stored under horizon L' has one
\* row per top_n in {10, 20, 30, 40, 50} plus one Benchmark row and is
\* computed from return series built with lookback L'; and a stored return
\* series exists per (lookback, top_n) for every lookback that was built.
C23_TablePerHorizonFromItsOwnSeries ==
    /\ \A L \in Lookbacks :
          MetricsSummary(L) \in DOMAIN results =>
             /\ Labels(results[MetricsSummary(L)]) =
                   <<(<<"Top", 10>>), (<<"Top", 20>>), (<<"Top", 30>>),
                     (<<"Top", 40>>), (<<"Top", 50>>), (<<"Benchmark">>)>>
             /\ \A i \in 1..5 :
                   results[MetricsSummary(L)][i].series =
                      BuiltSeries(PORT_SIZES[i], L)
    /\ \A L \in built : \A i \in 1..5 :
          \E f \in DOMAIN processed :
             processed[f] = BuiltSeries(PORT_SIZES[i], L)

\* ------------------------------------------- the readers of the summaries
\* the portfolio files exist (one build_portfolio run was made) and no
\* summary was written
SummaryInit ==
    /\ BaseIdle
    /\ pc = "summaries"
    /\ \E L \in Lookbacks :
          LET fs == BuildPortfolioMain([data |-> <<>>, res |-> <<>>], L)
          IN  /\ processed = fs.data
              /\ results = fs.res
              /\ built = {L}
    /\ procs = <<>>
    /\ lookup = <<>>
    /\ run_all = <<>>
    /\ ParseIdle /\ UnivIdle /\ FrameIdle /\ SelIdle /\ DevIdle

\* summarize_results.load_perf(L)
LoadPerf ==
    /\ pc = "summaries"
    /\ \E L \in Lookbacks :
          lookup' = [by |-> "load_perf", L |-> L, path |-> load_perf(results, L)]
    /\ UNCHANGED <<pc, processed, results, built, procs, run_all>>
    /\ UNCHANGED <<baseVars, parseVars, univVars, frameVars, selVars, devVars>>

\* pretty_table._find_summary_path(lookback)
FindSummaryPath ==
    /\ pc = "summaries"
    /\ \E L \in Lookbacks :
          lookup' = [by |-> "_find_summary_path", L |-> L,
                     path |-> find_summary_path(results, L)]
    /\ UNCHANGED <<pc, processed, results, built, procs, run_all>>
    /\ UNCHANGED <<baseVars, parseVars, univVars, frameVars, selVars, devVars>>

SummaryNext ==
    \/ RunComputeMetrics
    \/ LoadPerf
    \/ FindSummaryPath

SummarySpec == SummaryInit /\ [][SummaryNext]_vars

\* C27: for every lookback L in {1, 3, 6, 12} the file compute_metrics
\* --lookback L writes is the file load_perf(L) and _find_summary_path(L)
\* look for: once compute_metrics has run for all four horizons (no other
\* summary file existing) both readers find a file for every horizon, L = 6
\* included.
C27_ReadersFindWhatComputeMetricsWrote ==
    (/\ lookup # <<>>
     /\ \A L \in Lookbacks : MetricsSummary(L) \in DOMAIN results)
       => lookup.path # NotFound

\* ------------------------------------------- two concurrent portfolio builds
\* two build_portfolio.py processes with different lookbacks, each before the
\* first iteration of its loop over PORT_SIZES
ParInit ==
    /\ BaseIdle
    /\ pc = "par"
    /\ processed = <<>>
    /\ results = <<>>
    /\ built = {}
    /\ \E L1, L2 \in Lookbacks :
          /\ L1 # L2
          /\ procs = <<[lookback |-> L1, k |-> 1], [lookback |-> L2, k |-> 1]>>
    /\ lookup = <<>>
    /\ run_all = <<>>
    /\ ParseIdle /\ UnivIdle /\ FrameIdle /\ SelIdle /\ DevIdle

\* process p runs one iteration of the loop: s.to_csv and plot_single
LoopStep ==
    /\ pc = "par"
    /\ \E p \in DOMAIN procs :
          /\ procs[p].k <= Len(PORT_SIZES)
          /\ LET fs == Iterate([data |-> processed, res |-> results],
                               PORT_SIZES[procs[p].k], procs[p].lookback)
             IN  /\ processed' = fs.data
                 /\ results' = fs.res
          /\ procs' = [procs EXCEPT ![p].k = @ + 1]
    /\ UNCHANGED <<pc, built, lookup, run_all>>
    /\ UNCHANGED <<baseVars, parseVars, univVars, frameVars, selVars, devVars>>

\* process p runs the rest of main and exits
FinishMain ==
    /\ pc = "par"
    /\ \E p \in DOMAIN procs :
          /\ procs[p].k = Len(PORT_SIZES) + 1
          /\ results' = AfterLoop([data |-> processed, res |-> results],
                                  procs[p].lookback).res
          /\ built' = built \cup {procs[p].lookback}
          /\ procs' = [procs EXCEPT ![p].k = @ + 1]
    /\ UNCHANGED <<pc, processed, lookup, run_all>>
    /\ UNCHANGED <<baseVars, parseVars, univVars, frameVars, selVars, devVars>>

ParNext ==
    \/ LoopStep
    \/ FinishMain

ParSpec == ParInit /\ [][ParNext]_vars

\* process p has exited
Exited(p) == procs[p].k = Len(PORT_SIZES) + 2

\* C24: each (horizon, top-N) combination is independent: after the portfolio
\* build has run for two different lookbacks concurrently, in any
\* interleaving of their steps, the result stored for each combination is
\* the one a run of that combination alone stores, no output being written
\* by both.
C24_ConcurrentBuildsAreIndependent ==
    (\A p \in DOMAIN procs : Exited(p)) =>
       \A p \in DOMAIN procs : \A i \in DOMAIN PORT_SIZES :
          /\ PortfolioFile(PORT_SIZES[i]) \in DOMAIN processed
          /\ processed[PortfolioFile(PORT_SIZES[i])] =
                BuiltSeries(PORT_SIZES[i], procs[p].lookback)

\* ------------------------------------------------------------- run_all.py
\* results may hold summary files of earlier work; the inputs of
\* build_portfolio.py exist
RunAllInit ==
    /\ BaseIdle
    /\ pc = "run_all"
    /\ processed = <<>>
    /\ \E S \in SUBSET SummaryFiles : results = [f \in S |-> <<"old">>]
    /\ built = {}
    /\ procs = <<>>
    /\ lookup = <<>>
    /\ run_all = [step |-> "build", k |-> 1]
    /\ ParseIdle /\ UnivIdle /\ FrameIdle /\ SelIdle /\ DevIdle

\* the next position of a loop over HORIZONS, or the step after it
Advance(step, k, after) ==
    IF k < Len(HORIZONS) THEN [step |-> step, k |-> k + 1]
    ELSE [step |-> after, k |-> 1]

\* STEP 1: python scripts/build_portfolio.py --lookback L, for L in HORIZONS
RunAllBuild ==
    /\ pc = "run_all"
    /\ run_all.step = "build"
    /\ LET L == HORIZONS[run_all.k]
           fs == BuildPortfolioMain([data |-> processed, res |-> results], L)
       IN  /\ processed' = fs.data
           /\ results' = fs.res
           /\ built' = built \cup {L}
    /\ run_all' = Advance("build", run_all.k, "pretty")
    /\ UNCHANGED <<pc, procs, lookup>>
    /\ UNCHANGED <<baseVars, parseVars, univVars, frameVars, selVars, devVars>>

\* STEP 2: python scripts/pretty_table.py: build_one(L) for L in HORIZONS;
\* FileNotFoundError ends the script and, check=True, run_all
RunAllPretty ==
    /\ pc = "run_all"
    /\ run_all.step = "pretty"
    /\ LET L == HORIZONS[run_all.k]
           path == find_summary_path(results, L)
       IN  /\ lookup' = [by |-> "_find_summary_path", L |-> L, path |-> path]
           /\ IF path = NotFound
              THEN /\ run_all' = [step |-> "failed", k |-> run_all.k]
                   /\ UNCHANGED results
              ELSE /\ run_all' = Advance("pretty", run_all.k, "summarize")
                   /\ results' = Store(results, <<"metrics_table", L>>, path)
    /\ UNCHANGED <<pc, processed, built, procs>>
    /\ UNCHANGED <<baseVars, parseVars, univVars, frameVars, selVars, devVars>>

\* STEP 3: python scripts/summarize_results.py: load_perf(L) for L in
\* HORIZONS, then the plots and horizon_bestN_table.csv
RunAllSummarize ==
    /\ pc = "run_all"
    /\ run_all.step = "summarize"
    /\ LET L == HORIZONS[run_all.k]
           path == load_perf(results, L)
       IN  /\ lookup' = [by |-> "load_perf", L |-> L, path |-> path]
           /\ IF path = NotFound
              THEN /\ run_all' = [step |-> "failed", k |-> run_all.k]
                   /\ UNCHANGED results
              ELSE /\ run_all' = Advance("summarize", run_all.k, "completed")
                   /\ results' =
                         IF run_all.k = Len(HORIZONS)
                         THEN Store(results, <<"horizon_bestN_table">>, built)
                         ELSE results
    /\ UNCHANGED <<pc, processed, built, procs>>
    /\ UNCHANGED <<baseVars, parseVars, univVars, frameVars, selVars, devVars>>

RunAllNext ==
    \/ RunAllBuild
    \/ RunAllPretty
    \/ RunAllSummarize

RunAllSpec == RunAllInit /\ [][RunAllNext]_vars

\* results holds no summary CSV
NoSummaryCsv == DOMAIN results \cap SummaryFiles = {}

\* C26: run_all runs the full workflow: from a results directory without a
\* summary CSV, once step 1 (build_portfolio for 1, 3, 6, 12) has succeeded,
\* every file steps 2 and 3 read was written by an earlier step of the run,
\* so the run does not fail and reaches "All steps completed successfully".
C26_RunAllCompletes ==
    (/\ run_all # <<>>
     /\ run_all.step # "build"
     /\ NoSummaryCsv)
       => run_all.step # "failed"

\* ------------------------------ selection under two different returns panels
MaxSelAssets == 2

SelAssets == 1..MaxSelAssets

\* rets_wide.loc[holding_date] of a panel: its columns and their returns, or
\* no row when holding_date is not in its index
NoDate == [in_index |-> FALSE, row |-> <<>>]

PanelRows ==
    {[in_index |-> TRUE, row |-> f] :
        f \in UNION {[C -> {1, NaN}] : C \in SUBSET SelAssets}}
       \cup {NoDate}

\* the body of the loop for one formation date: what it selects from the
\* sorted cross-section and what it appends, given the row of the panel
LoopBody(srt, n, row) ==
    LET tk == Tickers(HeadN(srt, n))
        cols == IF row.in_index THEN Cols(tk, DOMAIN row.row) ELSE <<>>
        rr == IF cols = <<>> THEN <<>> ELSE Loc(row.row, cols)
    IN  [tickers |-> tk, cols |-> cols, r |-> rr,
         appended |-> row.in_index /\ cols # <<>> /\ ~AllMissing(rr),
         mean |-> Mean(rr)]

\* the rows of the momentum table at the formation date, top_n, and the rows
\* of two returns panels at the holding date
SelInit ==
    /\ BaseIdle
    /\ pc = "select"
    /\ mom_t \in RowSeqs(SelAssets, {1, 2, NaN})
    /\ sel_n \in 1..MaxSelAssets
    /\ rets_a \in PanelRows
    /\ rets_b \in PanelRows
    /\ sel_a = <<>>
    /\ sel_b = <<>>
    /\ ParseIdle /\ UnivIdle /\ FsIdle /\ FrameIdle /\ DevIdle

\* if cross.empty: continue, in both runs
SelectNone ==
    /\ pc = "select"
    /\ DropNa(mom_t) = <<>>
    /\ pc' = "skipped"
    /\ UNCHANGED <<mom_t, sel_n, rets_a, rets_b, sel_a, sel_b>>
    /\ UNCHANGED <<baseVars, parseVars, univVars, fsVars, frameVars, devVars>>

\* one iteration of build_portfolio_returns(mom, rets_wide, top_n, lookback)
\* on the same mom and on either panel; the sort is a deterministic
\* algorithm, so both runs get the same order of equal scores
SelectBoth ==
    /\ pc = "select"
    /\ DropNa(mom_t) # <<>>
    /\ \E srt \in SortValues(DropNa(mom_t)) :
          /\ sel_a' = LoopBody(srt, sel_n, rets_a)
          /\ sel_b' = LoopBody(srt, sel_n, rets_b)
    /\ pc' = "selected"
    /\ UNCHANGED <<mom_t, sel_n, rets_a, rets_b>>
    /\ UNCHANGED <<baseVars, parseVars, univVars, fsVars, frameVars, devVars>>

SelNext ==
    \/ SelectNone
    \/ SelectBoth

SelSpec == SelInit /\ [][SelNext]_vars

\* the score of asset a at the formation date
MomOf(a) == (CHOOSE x \in Range(mom_t) : x.NR = a).mom

\* the assets with a defined score at the formation date
Scored == {x.NR : x \in {y \in Range(mom_t) : y.mom # NaN}}

\* tk is a selection of the n best-scored assets, decided on scores alone
BestByScore(tk, n) ==
    /\ Len(tk) = Min(n, Cardinality(Scored))
    /\ Range(tk) \subseteq Scored
    /\ \A i, j \in DOMAIN tk : i # j => tk[i] # tk[j]
    /\ \A a \in Scored \ Range(tk) : \A b \in Range(tk) : MomOf(b) >= MomOf(a)

\* the assets of tk that have a column in the panel row, in order
Held(tk, row) ==
    IF row.in_index THEN SelectSeq(tk, LAMBDA a : a \in DOMAIN row.row)
    ELSE <<>>

\* C29: no look-ahead in selection: the assets selected at a formation date
\* are fixed by the momentum rows at that date and top_n; two runs on the
\* same momentum table with different returns panels select the same assets;
\* a selected asset without a return at the holding date is not replaced by
\* the next-ranked one (the mean is over selected assets only).
C29_SelectionIgnoresReturns ==
    pc = "selected" =>
       /\ sel_a.tickers = sel_b.tickers
       /\ BestByScore(sel_a.tickers, sel_n)
       /\ sel_a.cols = Held(sel_a.tickers, rets_a)
       /\ sel_b.cols = Held(sel_b.tickers, rets_b)
       /\ Len(sel_a.r) = Len(sel_a.cols) /\ Len(sel_b.r) = Len(sel_b.cols)

\* top_n = 1, the selected asset has no return in the first panel, another
\* scored asset has one, and nothing was appended in the first run while the
\* second run, on a different panel, appended a value
C29_Witness ==
    /\ pc = "selected"
    /\ sel_n = 1
    /\ rets_a # rets_b
    /\ rets_a.in_index
    /\ \E a \in Range(sel_a.tickers) :
          a \notin DOMAIN rets_a.row \/ rets_a.row[a] = NaN
    /\ \E c \in Scored \ Range(sel_a.tickers) :
          c \in DOMAIN rets_a.row /\ rets_a.row[c] # NaN
    /\ ~sel_a.appended
    /\ sel_b.appended

\* ------------------------------- the downside deviation in floating point
\* A binary floating-point format with MantBits significant bits and
\* round-to-nearest-even stands for the doubles of the build. A negative
\* return is -m * 2^-s for an integer m of at most MantBits bits; rounding
\* does not depend on the scale s, so the magnitudes m are kept, in units of
\* 2^-(MantBits - 1).
MantBits == 4
MaxNeg == 3

RECURSIVE Pow2(_)
Pow2(n) == IF n = 0 THEN 1 ELSE 2 * Pow2(n - 1)

\* the magnitudes of the negative returns
Magnitudes == 1..(Pow2(MantBits) - 1)

\* a magnitude in units
Units(m) == m * Pow2(MantBits - 1)

RECURSIVE UlpFrom(_, _, _)
\* the spacing of the floats around a / b (a / b >= Pow2(MantBits - 1))
UlpFrom(a, b, g) ==
    IF a >= Pow2(MantBits) * g * b THEN UlpFrom(a, b, 2 * g) ELSE g

\* a / d rounded to the nearest integer, ties to even
RoundHalfEven(a, d) ==
    LET f == a \div d
        rem == a - f * d
    IN  IF 2 * rem > d \/ (2 * rem = d /\ f % 2 = 1) THEN f + 1 ELSE f

\* the float nearest to a / b
RoundFloat(a, b) ==
    LET g == UlpFrom(a, b, 1) IN g * RoundHalfEven(a, b * g)

RECURSIVE FloatSum(_, _)
\* values.sum(): the elements are added one by one, each sum rounded
FloatSum(v, acc) ==
    IF v = <<>> THEN acc ELSE FloatSum(Tail(v), RoundFloat(acc + v[1], 1))

\* avg = values.sum() / count
FloatMean(v) == RoundFloat(FloatSum(Tail(v), v[1]), Len(v))

\* neg.std(ddof=1): NaN for one observation (count - ddof = 0); otherwise
\* sqrt(((avg - values) ** 2).sum() / (count - 1)), which is zero exactly
\* when every avg - values[i] is zero
FloatStd(v) ==
    IF Len(v) < 2 THEN "nan"
    ELSE IF \A i \in DOMAIN v : FloatMean(v) = v[i] THEN "zero"
    ELSE "positive"

\* sortino(r) for a series r with the negative returns v (returns above -1,
\* so cagr(r) is finite): dvol = std * sqrt(12);
\* ret / dvol if dvol and dvol > 0 else nan
sortino_float(v) ==
    LET dvol == FloatStd(v)
    IN  IF dvol = "positive" THEN "ratio" ELSE "nan"

DevInit ==
    /\ BaseIdle
    /\ pc = "sortino"
    /\ \E k \in 1..MaxNeg, f \in [1..MaxNeg -> Magnitudes] :
          neg_obs = [i \in 1..k |-> Units(f[i])]
    /\ dev_out = "none"
    /\ ParseIdle /\ UnivIdle /\ FsIdle /\ FrameIdle /\ SelIdle

\* sortino(r)
CallSortinoFloat ==
    /\ pc = "sortino"
    /\ dev_out' = sortino_float(neg_obs)
    /\ pc' = "done"
    /\ UNCHANGED neg_obs
    /\ UNCHANGED <<baseVars, parseVars, univVars, fsVars, frameVars, selVars>>

DevNext == CallSortinoFloat

DevSpec == DevInit /\ [][DevNext]_vars

\* C30: sortino(r) is NaN, not a finite ratio and not infinity, whenever r
\* has exactly one strictly negative return or several negative returns
\* that are all equal (downside deviation undefined or zero).
C30_SortinoUndefinedOnDegenerateDownside ==
    (/\ dev_out # "none"
     /\ \A i, j \in DOMAIN neg_obs : neg_obs[i] = neg_obs[j])
       => dev_out = "nan"

\* ------------------------------------------------ objects and references
\* The five core operations on a heap of pandas objects. A reference is an
\* index of the heap; a mapping of named series holds references, so two
\* names, or an argument and a mapping, may share one object.
MaxFrameDate == 2

FrameAssets == {1, 2}

Obj(ti, d) == [type |-> ti, data |-> d]

InPlace(h, src, obj) == [heap |-> [h EXCEPT ![src] = obj], ref |-> src]

\* the result of a pandas method called on src (sort_index, sort_values,
\* dropna, fillna, copy, boolean indexing, arithmetic, ...): a new object
NewObject(h, src, obj) == [heap |-> Append(h, obj), ref |-> Len(h) + 1]

\* src.F(...): the new object holds F of the contents of src
Method(h, src, F(_)) == NewObject(h, src, Obj(h[src].type, F(h[src].data)))

\* an object built from local values: a dict or list display, pd.Series(...),
\* pd.DataFrame(rows)
Construct(h, obj) == [heap |-> Append(h, obj), ref |-> Len(h) + 1]

\* d[k] for the items d of a mapping
ItemRef(items, k) == (CHOOSE x \in Range(items) : x.name = k).ref

\* the items of a mapping after d[k] = ref: a present key keeps its place
SetKey(items, k, ref) ==
    IF \E i \in DOMAIN items : items[i].name = k
    THEN [i \in DOMAIN items |->
             IF items[i].name = k THEN [name |-> k, ref |-> ref] ELSE items[i]]
    ELSE Append(items, [name |-> k, ref |-> ref])

\* d[k] = ref: the one statement form that writes into an existing object
SetItem(h, d, k, ref) ==
    [h EXCEPT ![d] = Obj("dict", SetKey(h[d].data, k, ref))]

\* df[c] = column: the value column of df is replaced in place
SetColumn(h, df, F(_)) == [h EXCEPT ![df] = Obj(h[df].type, F(h[df].data))]

\* the same object contents
Same(a, b) == a.type = b.type /\ a.data = b.data

\* series on the dates 1..MaxFrameDate, rows in any order
FrameSeries ==
    UNION {{s \in [1..n -> [date : 1..MaxFrameDate, val : {NaN, 1}]] :
               \A i, j \in 1..n : i # j => s[i].date # s[j].date} :
           n \in 0..MaxFrameDate}

\* the same with the index in increasing order
FrameSortedSeries == {s \in FrameSeries : \A i, j \in DOMAIN s : i < j => s[i].date < s[j].date}

\* x = e; Body(x): e is computed once and named
Then(e, Body(_)) == CHOOSE v \in {Body(x) : x \in {e}} : TRUE

\* ---- cum_index
cum_index_heap(h, rs, st) ==
    Then(Method(h, rs, SortIndex), LAMBDA srt :
    Then(Method(srt.heap, srt.ref, FillNa0), LAMBDA f :
    Then(Method(f.heap, f.ref, CumProd), LAMBDA c :
    Then(Method(c.heap, c.ref, Shift1), LAMBDA sh :
    Method(sh.heap, sh.ref, LAMBDA x : Scale(x, st))))))

\* ---- align_common_start
\* the series a mapping names
SeriesOf(h, items) ==
    [k \in {items[i].name : i \in DOMAIN items} |-> h[ItemRef(items, k)].data]

RECURSIVE TrimItems(_, _, _)
\* {k: v[v.index >= common_start] for k, v in series_dict.items()}
TrimItems(h, items, cs) ==
    IF items = <<>> THEN [heap |-> h, items |-> <<>>]
    ELSE Then(Method(h, items[1].ref, LAMBDA x : Trim(x, cs)), LAMBDA v :
         Then(TrimItems(v.heap, Tail(items), cs), LAMBDA rest :
         [heap  |-> rest.heap,
          items |-> <<[name |-> items[1].name, ref |-> v.ref]>> \o rest.items]))

align_common_start_heap(h, sd, b) ==
    Then(MaxOf(Starts(SeriesOf(h, h[sd].data), h[b].data)), LAMBDA cs :
    Then(TrimItems(h, h[sd].data, cs), LAMBDA tr :
    Then(Construct(tr.heap, Obj("dict", tr.items)), LAMBDA al :
    Then(Method(al.heap, b, LAMBDA x : Trim(x, cs)), LAMBDA ba :
    [heap |-> ba.heap, out |-> <<al.ref, ba.ref>>]))))

\* ---- metrics_table
\* cagr(r): r = r.dropna()
cagr_heap(h, s) == Method(h, s, DropNaSeries).heap

\* ann_vol(r): r = r.dropna()
ann_vol_heap(h, s) == Method(h, s, DropNaSeries).heap

\* sharpe(r): ann_vol(r), cagr(r)
sharpe_heap(h, s) == Then(ann_vol_heap(h, s), LAMBDA h1 : cagr_heap(h1, s))

\* sortino(r): r = r.dropna(); cagr(r); neg = r[r < 0]
sortino_heap(h, s) ==
    Then(Method(h, s, DropNaSeries), LAMBDA d :
    IF d.heap[d.ref].data = <<>> THEN d.heap
    ELSE Then(cagr_heap(d.heap, d.ref), LAMBDA h1 :
         Method(h1, d.ref, Negatives).heap))

\* the rows of s on the dates of b: one side of s.align(b, join="inner")
InnerJoin(s, b) == SelectSeq(s, LAMBDA x : x.date \in Index(b))

\* ret = cagr(s); vol = ann_vol(s); sh = sharpe(s); so = sortino(s)
BaseMetrics(h, s) ==
    Then(cagr_heap(h, s), LAMBDA h1 :
    Then(ann_vol_heap(h1, s), LAMBDA h2 :
    Then(sharpe_heap(h2, s), LAMBDA h3 :
    sortino_heap(h3, s))))

\* p_aligned, b_aligned = s.align(bench, join="inner");
\* active = p_aligned - b_aligned; hac_t_pvalue(active): active.dropna()
ActiveTest(h, s, bn) ==
    Then(Method(h, s, LAMBDA x : InnerJoin(x, h[bn].data)), LAMBDA pa :
    Then(Method(pa.heap, bn, LAMBDA x : InnerJoin(x, h[s].data)), LAMBDA ba :
    Then(Construct(ba.heap, Obj("series", ActiveOf(ba.heap[pa.ref].data,
                                                   ba.heap[ba.ref].data))),
         LAMBDA ac :
    Method(ac.heap, ac.ref, DropNaSeries).heap)))

\* the body of the loop of metrics_table for one item
TableItem(h, item, bn) ==
    Then(Method(h, item.ref, DropNaSeries), LAMBDA s0 :
    Then(Method(s0.heap, s0.ref, SortIndex), LAMBDA s :
    Then(BaseMetrics(s.heap, s.ref), LAMBDA m :
    [heap |-> IF item.name = "Benchmark" THEN m ELSE ActiveTest(m, s.ref, bn),
     row  |-> [Portfolio |-> item.name, obs |-> Len(m[s.ref].data)]])))

RECURSIVE TableRows(_, _, _)
\* for name, s in named_series.items(): ...; rows.append(...)
TableRows(h, items, bn) ==
    IF items = <<>> THEN [heap |-> h, rows |-> <<>>]
    ELSE Then(TableItem(h, items[1], bn), LAMBDA it :
         Then(TableRows(it.heap, Tail(items), bn), LAMBDA rest :
         [heap |-> rest.heap, rows |-> <<it.row>> \o rest.rows]))

metrics_table_heap(h, ns) ==
    Then(Method(h, ItemRef(h[ns].data, "Benchmark"), DropNaSeries), LAMBDA b0 :
    Then(Method(b0.heap, b0.ref, SortIndex), LAMBDA b :
    Then(TableRows(b.heap, h[ns].data, b.ref), LAMBDA tr :
    Construct(tr.heap, Obj("table", tr.rows)))))

\* ---- compute_momentum
\* the value column of a table
Vals(rows) == [i \in DOMAIN rows |-> rows[i].val]

\* the table with its value column replaced
WithVals(rows, v) == [i \in DOMAIN rows |-> [date |-> rows[i].date, val |-> v[i]]]

\* pd.to_numeric(df[c]..., errors="coerce")
NumericColumn(rows) == WithVals(rows, Numeric(Vals(rows)))

\* pd.to_datetime(df[date_col], errors="coerce") on dates that parse
DatetimeColumn(rows) == rows

\* levels.copy()
CopyOf(rows) == rows

\* px.shift(1) / px.shift(1 + lookback) - 1.0
MomFrame(rows, L) ==
    Then(MomWide(Vals(rows), L), LAMBDA w : WithVals(rows, w))

\* .reset_index().melt(id_vars="date", var_name="NR", value_name=...)
MeltFrame(rows) ==
    [i \in DOMAIN rows |-> [date |-> rows[i].date, NR |-> "NR", val |-> rows[i].val]]

compute_momentum_heap(h, levels, L) ==
    Then(Method(h, levels, CopyOf), LAMBDA df0 :
    Then(Method(df0.heap, df0.ref, SortByDate), LAMBDA df :
    Then(SetColumn(df.heap, df.ref, DatetimeColumn), LAMBDA h1 :
    Then(SetColumn(h1, df.ref, NumericColumn), LAMBDA h2 :
    Then(Method(h2, df.ref, SortByDate), LAMBDA pxs :
    Then(Method(pxs.heap, pxs.ref, LAMBDA x : MomFrame(x, L)), LAMBDA w :
    Then(Method(w.heap, w.ref, MeltFrame), LAMBDA m :
    Method(m.heap, m.ref, DropNaRows))))))))

\* ---- build_portfolio_returns
\* the place of asset a in the order pri
Place(pri, a) == CHOOSE i \in DOMAIN pri : pri[i] = a

\* cross.sort_values(mom_col, ascending=False) where the unstable sort
\* leaves rows of equal score in the order pri
SortValuesBy(c, pri) ==
    CHOOSE q \in SortValues(c) :
        \A i, j \in DOMAIN q :
            (i < j /\ q[i].mom = q[j].mom) => Place(pri, q[i].NR) < Place(pri, q[j].NR)

\* rets_wide.loc[holding_date, cols]
LocRow(panel, d, cols) ==
    Then((CHOOSE x \in Range(panel) : x.date = d).row, LAMBDA row :
    [i \in DOMAIN cols |-> [date |-> cols[i], val |-> row[cols[i]]]])

\* r = rets_wide.loc[holding_date, cols]; r.dropna(); port_rets.append(...)
HoldingStep(h, rets, hd, cols) ==
    Then(NewObject(h, rets, Obj("series", LocRow(h[rets].data, hd, cols))),
         LAMBDA rw :
    Then(Method(rw.heap, rw.ref, DropNaSeries), LAMBDA rd :
    Then(rd.heap[rd.ref].data, LAMBDA got :
    IF got = <<>> THEN [heap |-> rd.heap, obs |-> <<>>]
    ELSE [heap |-> rd.heap,
          obs  |-> <<[date |-> hd,
                      val  |-> [sum |-> SumSeq(Vals(got)), n |-> Len(got)]]>>])))

\* top = cross.sort_values(...).head(top_n); tickers; the checks of the
\* holding date and of cols
SelectStep(h, cr, rets, n, hd, pri) ==
    Then(Method(h, cr, LAMBDA x : SortValuesBy(x, pri)), LAMBDA so :
    Then(Method(so.heap, so.ref, LAMBDA x : HeadN(x, n)), LAMBDA top :
    Then(h[rets].data, LAMBDA pan :
    Then(SelectSeq(Tickers(top.heap[top.ref].data),
                   LAMBDA a : \E x \in Range(pan) : a \in DOMAIN x.row),
         LAMBDA cols :
    IF ~\E x \in Range(pan) : x.date = hd
    THEN [heap |-> top.heap, obs |-> <<>>]
    ELSE IF cols = <<>> THEN [heap |-> top.heap, obs |-> <<>>]
    ELSE HoldingStep(top.heap, rets, hd, cols)))))

\* the body of the loop at position k of the dates ds: the heap after it
\* and the observation appended to port_rets, if any
PortfolioStep(h, mom, rets, n, ds, k, pri) ==
    Then(Method(h, mom, LAMBDA x : SelectSeq(x, LAMBDA y : y.date = ds[k])),
         LAMBDA c0 :
    Then(Method(c0.heap, c0.ref, DropNa), LAMBDA cr :
    IF cr.heap[cr.ref].data = <<>> THEN [heap |-> cr.heap, obs |-> <<>>]
    ELSE SelectStep(cr.heap, cr.ref, rets, n, ds[k + 1], pri)))

RECURSIVE PortfolioLoop(_, _, _, _, _, _, _)
\* for t in range(len(dates) - 1)
PortfolioLoop(h, mom, rets, n, ds, k, pri) ==
    IF k >= Len(ds) THEN [heap |-> h, obs |-> <<>>]
    ELSE Then(PortfolioStep(h, mom, rets, n, ds, k, pri), LAMBDA st :
         Then(PortfolioLoop(st.heap, mom, rets, n, ds, k + 1, pri), LAMBDA rest :
         [heap |-> rest.heap, obs |-> st.obs \o rest.obs]))

build_portfolio_returns_heap(h, mom, rets, n, pri) ==
    Then(Method(h, mom, LAMBDA x : SelectSeq(x, LAMBDA y : y.date # NaN)),
         LAMBDA col :
    Then(SortedSeq({x.date : x \in Range(col.heap[col.ref].data)}), LAMBDA ds :
    Then(PortfolioLoop(col.heap, mom, rets, n, ds, 1, pri), LAMBDA loop :
    Construct(loop.heap, Obj("series", loop.obs)))))

\* ---- the calls
\* momentum tables: rows (date, NR, score), one row per date and asset, as
\* many rows as there are assets
MomTables ==
    UNION {{s \in [1..k -> [date : 1..MaxFrameDate, NR : FrameAssets,
                            mom : {NaN, 1, 2}]] :
               \A i, j \in 1..k :
                   i # j => (s[i].date # s[j].date \/ s[i].NR # s[j].NR)} :
           k \in 0..Cardinality(FrameAssets)}

\* wide return panels: one row per date of the index, in index order
Panels ==
    UNION {{[i \in 1..Cardinality(D) |-> [date |-> SortedSeq(D)[i], row |-> f[i]]] :
               f \in [1..Cardinality(D) -> [C -> {NaN, 1}]]} :
           D \in SUBSET (1..MaxFrameDate), C \in {{1}, FrameAssets}}

\* raw price tables: rows (date, price entry), in any order; a momentum of
\* lookback 1 needs three months
LevelTables ==
    UNION {{s \in [1..n -> [date : 1..(MaxFrameDate + 1), val : RawPrices]] :
               \A i, j \in 1..n : i # j => s[i].date # s[j].date} :
           n \in 0..(MaxFrameDate + 1)}

\* the heaps and arguments of the calls
FrameCalls ==
    {[op |-> "cum_index", heap |-> <<Obj("series", s)>>, args |-> <<1>>] :
        s \in FrameSeries}
    \cup
    {[op |-> "align_common_start",
      heap |-> <<Obj("series", a), Obj("series", b), Obj("series", c),
                 Obj("dict", <<[name |-> "Top 1", ref |-> 1],
                               [name |-> "Top 2", ref |-> 2]>>)>>,
      args |-> <<4, 3>>] :
        a \in FrameSortedSeries, b \in FrameSortedSeries, c \in FrameSortedSeries}
    \cup
    {[op |-> "align_common_start",
      heap |-> <<Obj("series", a), Obj("series", c),
                 Obj("dict", <<[name |-> "Top 1", ref |-> 1],
                               [name |-> "Benchmark", ref |-> 2]>>)>>,
      args |-> <<3, 2>>] :
        a \in FrameSortedSeries, c \in FrameSortedSeries}
    \cup
    {[op |-> "metrics_table",
      heap |-> <<Obj("series", a), Obj("series", c),
                 Obj("dict", <<[name |-> "Top 1", ref |-> 1],
                               [name |-> "Benchmark", ref |-> 2]>>)>>,
      args |-> <<3>>] :
        a \in FrameSeries, c \in FrameSeries}
    \cup
    {[op |-> "metrics_table",
      heap |-> <<Obj("series", a),
                 Obj("dict", <<[name |-> "Top 1", ref |-> 1]>>)>>,
      args |-> <<2>>] :
        a \in FrameSeries}
    \cup
    {[op |-> "compute_momentum", heap |-> <<Obj("frame", l)>>, args |-> <<1>>] :
        l \in LevelTables}
    \cup
    {[op |-> "build_portfolio_returns",
      heap |-> <<Obj("frame", m), Obj("panel", w)>>, args |-> <<1, 2>>] :
        m \in MomTables, w \in Panels}

FrameInit ==
    /\ BaseIdle
    /\ pc = "call"
    /\ \E c \in FrameCalls :
          /\ frame_op = c.op
          /\ heap = c.heap
          /\ frame_before = c.heap
          /\ frame_in = c.args
    /\ frame_out = <<>>
    /\ ParseIdle /\ UnivIdle /\ FsIdle /\ SelIdle /\ DevIdle

\* cum_index(returns, start)
CallCumIndex ==
    /\ pc = "call" /\ frame_op = "cum_index"
    /\ \E st \in {1, 2} :
          LET res == cum_index_heap(heap, frame_in[1], st)
          IN  heap' = res.heap /\ frame_out' = <<res.ref>>
    /\ pc' = "returned"
    /\ UNCHANGED <<frame_in, frame_before, frame_op>>
    /\ UNCHANGED <<baseVars, parseVars, univVars, fsVars, selVars, devVars>>

\* align_common_start(series_dict, bench); max of an empty list raises
CallAlignCommonStart ==
    /\ pc = "call" /\ frame_op = "align_common_start"
    /\ IF Starts(SeriesOf(heap, heap[frame_in[1]].data), heap[frame_in[2]].data) = {}
       THEN pc' = "raised" /\ UNCHANGED <<heap, frame_out>>
       ELSE LET res == align_common_start_heap(heap, frame_in[1], frame_in[2])
            IN  heap' = res.heap /\ frame_out' = res.out /\ pc' = "returned"
    /\ UNCHANGED <<frame_in, frame_before, frame_op>>
    /\ UNCHANGED <<baseVars, parseVars, univVars, fsVars, selVars, devVars>>

\* the caller's next statement: aligned["Benchmark"] = bench_aligned
SetBenchmark ==
    /\ pc = "returned" /\ frame_op = "align_common_start"
    /\ heap' = SetItem(heap, frame_out[1], "Benchmark", frame_out[2])
    /\ pc' = "extended"
    /\ UNCHANGED <<frame_in, frame_before, frame_op, frame_out>>
    /\ UNCHANGED <<baseVars, parseVars, univVars, fsVars, selVars, devVars>>

\* metrics_table(named_series); a mapping without the benchmark raises
CallMetricsTable ==
    /\ pc = "call" /\ frame_op = "metrics_table"
    /\ IF ~\E x \in Range(heap[frame_in[1]].data) : x.name = "Benchmark"
       THEN pc' = "raised" /\ UNCHANGED <<heap, frame_out>>
       ELSE LET res == metrics_table_heap(heap, frame_in[1])
            IN  heap' = res.heap /\ frame_out' = <<res.ref>> /\ pc' = "returned"
    /\ UNCHANGED <<frame_in, frame_before, frame_op>>
    /\ UNCHANGED <<baseVars, parseVars, univVars, fsVars, selVars, devVars>>

\* compute_momentum(levels, lookback)
CallComputeMomentum ==
    /\ pc = "call" /\ frame_op = "compute_momentum"
    /\ LET res == compute_momentum_heap(heap, frame_in[1], 1)
       IN  heap' = res.heap /\ frame_out' = <<res.ref>>
    /\ pc' = "returned"
    /\ UNCHANGED <<frame_in, frame_before, frame_op>>
    /\ UNCHANGED <<baseVars, parseVars, univVars, fsVars, selVars, devVars>>

\* build_portfolio_returns(mom, rets_wide, top_n, lookback)
CallBuildPortfolioReturns ==
    /\ pc = "call" /\ frame_op = "build_portfolio_returns"
    /\ \E n \in FrameAssets, pri \in InjSeqs(FrameAssets, Cardinality(FrameAssets)) :
          LET res == build_portfolio_returns_heap(heap, frame_in[1], frame_in[2],
                                                  n, pri)
          IN  heap' = res.heap /\ frame_out' = <<res.ref>>
    /\ pc' = "returned"
    /\ UNCHANGED <<frame_in, frame_before, frame_op>>
    /\ UNCHANGED <<baseVars, parseVars, univVars, fsVars, selVars, devVars>>

FrameNext ==
    \/ CallCumIndex
    \/ CallAlignCommonStart
    \/ SetBenchmark
    \/ CallMetricsTable
    \/ CallComputeMomentum
    \/ CallBuildPortfolioReturns

FrameSpec == FrameInit /\ [][FrameNext]_vars

\* C25: no core operation mutates its inputs: after build_portfolio_returns,
\* compute_momentum, cum_index, align_common_start and metrics_table return
\* (or raise), and after the caller has stored the benchmark in the returned
\* mapping, every object the caller had before the call (the momentum table,
\* the returns panel, the price table, the return series, the mapping of
\* named series with its keys and its series) has the contents it had.
C25_OperationsLeaveInputsUnchanged ==
    pc \in {"returned", "raised", "extended"}
       => /\ Len(heap) >= Len(frame_before)
          /\ \A x \in DOMAIN frame_before : Same(heap[x], frame_before[x])

\* align_common_start returned series shorter than the caller's, the caller
\* wrote the benchmark into the returned mapping
C25_Witness ==
    /\ pc = "extended"
    /\ frame_out[1] \notin DOMAIN frame_before
    /\ \E x \in Range(heap[frame_out[1]].data) :
          /\ x.name # "Benchmark"
          /\ heap[x.ref].data # frame_before[ItemRef(frame_before[frame_in[1]].data, x.name)].data
    /\ ItemRef(heap[frame_out[1]].data, "Benchmark") = frame_out[2]

====
